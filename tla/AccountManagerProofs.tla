------------------------ MODULE AccountManagerProofs ------------------------
(***************************************************************************)
(* What holds of AccountManager for all accounts, amounts and bounds: as   *)
(* long as the manager is not bypassed the snapshots replay into the       *)
(* balances (IInv), therefore a rollback goes through and restores the     *)
(* balances exactly; and no account is ever overdrawn.                     *)
(***************************************************************************)
EXTENDS AccountManager, SequenceTheorems, TLAPS

\* Account::Debit and Account::Credit, balance by balance.
LEMMA DebitedFacts ==
    ASSUME NEW b \in Balances, NEW a \in Accounts, NEW m \in Int
    PROVE  /\ Debited(b, a, m) \in Balances
           /\ \A x \in Accounts : Debited(b, a, m)[x] = IF x = a THEN b[a] - m ELSE b[x]
<1>1. b[a] - m \in Int
  BY DEF Balances
<1>2. Debited(b, a, m) = [b EXCEPT ![a] = b[a] - m]
  BY DEF Debited
<1> QED BY <1>1, <1>2 DEF Balances

LEMMA CreditedFacts ==
    ASSUME NEW b \in Balances, NEW a \in Accounts, NEW m \in Int
    PROVE  /\ Credited(b, a, m) \in Balances
           /\ \A x \in Accounts : Credited(b, a, m)[x] = IF x = a THEN b[a] + m ELSE b[x]
<1>1. b[a] + m \in Int
  BY DEF Balances
<1>2. Credited(b, a, m) = [b EXCEPT ![a] = b[a] + m]
  BY DEF Credited
<1> QED BY <1>1, <1>2 DEF Balances

LEMMA CommandFacts ==
    ASSUME NEW c \in Command
    PROVE  /\ c.account \in Accounts /\ c.amount \in Nat
           /\ c.kind = "debit" \/ c.kind = "credit"
BY AccountAssumption DEF Command

\* The balances have the same names before and after a command.
LEMMA ExecutedType ==
    ASSUME NEW c \in Command, NEW b \in Balances
    PROVE  Executed(c, b) \in Balances
BY CommandFacts, DebitedFacts, CreditedFacts DEF Executed

LEMMA NatBalances ==
    ASSUME NEW b \in Balances, \A a \in Accounts : b[a] >= 0
    PROVE  \A a \in Accounts : b[a] \in Nat
<1> TAKE x \in Accounts
<1>1. b[x] \in Int
  BY DEF Balances
<1>2. b[x] >= 0
  OBVIOUS
<1> QED BY <1>1, <1>2

\* Executing a command that can be executed overdraws no account.
LEMMA ExecutedNat ==
    ASSUME NEW c \in Command, NEW b \in Balances, CanExecute(c, b),
           \A a \in Accounts : b[a] >= 0
    PROVE  \A a \in Accounts : Executed(c, b)[a] >= 0
<1> DEFINE a == c.account
           m == c.amount
<1>1. a \in Accounts /\ m \in Nat /\ (c.kind = "debit" \/ c.kind = "credit")
  BY CommandFacts
<1> SUFFICES ASSUME NEW x \in Accounts PROVE Executed(c, b)[x] >= 0
  OBVIOUS
<1>2. b[x] \in Nat /\ b[a] \in Nat
  BY <1>1, NatBalances
<1>3. CASE c.kind = "debit"
  <2>1. m <= b[a]
    BY <1>3 DEF CanExecute, Covers
  <2>2. Executed(c, b)[x] = IF x = a THEN b[a] - m ELSE b[x]
    BY <1>1, <1>3, DebitedFacts DEF Executed
  <2> HIDE DEF a, m
  <2> QED BY <1>1, <1>2, <2>1, <2>2
<1>4. CASE c.kind = "credit"
  <2>1. Executed(c, b)[x] = IF x = a THEN b[a] + m ELSE b[x]
    BY <1>1, <1>4, CreditedFacts DEF Executed
  <2> HIDE DEF a, m
  <2> QED BY <1>1, <1>2, <2>1
<1> QED BY <1>1, <1>3, <1>4

\* Undoing an executed command restores the balances it was executed on, and
\* can always be done.
LEMMA UndoInverts ==
    ASSUME NEW c \in Command, c.executed, NEW b \in Balances,
           \A a \in Accounts : b[a] >= 0
    PROVE  /\ CanUndo(c, Executed(c, b))
           /\ Undone(c, Executed(c, b)) = b
<1> DEFINE a == c.account
           m == c.amount
<1>1. a \in Accounts /\ m \in Nat
  BY CommandFacts
<1>4. \A x \in Accounts : b[x] \in Nat
  BY NatBalances
<1>2. CASE c.kind = "debit"
  <2>1. Undone(c, Executed(c, b)) = Credited(Debited(b, a, m), a, m)
    BY <1>2 DEF Undone, Executed
  <2>2. /\ Debited(b, a, m) \in Balances
        /\ \A x \in Accounts : Debited(b, a, m)[x] = IF x = a THEN b[a] - m ELSE b[x]
    BY <1>1, DebitedFacts
  <2>3. /\ Credited(Debited(b, a, m), a, m) \in Balances
        /\ \A x \in Accounts : Credited(Debited(b, a, m), a, m)[x] =
             IF x = a THEN Debited(b, a, m)[a] + m ELSE Debited(b, a, m)[x]
    BY <1>1, <2>2, CreditedFacts
  <2>4. \A x \in Accounts : Credited(Debited(b, a, m), a, m)[x] = b[x]
    <3> TAKE x \in Accounts
    <3>1. b[x] \in Nat /\ b[a] \in Nat /\ m \in Nat
      BY <1>1, <1>4
    <3>2. /\ Debited(b, a, m)[a] = b[a] - m
          /\ Debited(b, a, m)[x] = IF x = a THEN b[a] - m ELSE b[x]
      BY <1>1, <2>2
    <3>3. Credited(Debited(b, a, m), a, m)[x] =
             IF x = a THEN Debited(b, a, m)[a] + m ELSE Debited(b, a, m)[x]
      BY <2>3
    <3> HIDE DEF a, m
    <3> QED BY <3>1, <3>2, <3>3
  <2>5. Credited(Debited(b, a, m), a, m) = b
    BY <2>3, <2>4 DEF Balances
  <2> QED BY <1>2, <2>1, <2>5 DEF CanUndo
<1>3. CASE c.kind = "credit"
  <2>1. Executed(c, b) = Credited(b, a, m)
    BY <1>3 DEF Executed
  <2>2. Undone(c, Executed(c, b)) = Debited(Credited(b, a, m), a, m)
    BY <1>3, <2>1 DEF Undone
  <2>3. /\ Credited(b, a, m) \in Balances
        /\ \A x \in Accounts : Credited(b, a, m)[x] = IF x = a THEN b[a] + m ELSE b[x]
    BY <1>1, CreditedFacts
  <2>4. /\ Debited(Credited(b, a, m), a, m) \in Balances
        /\ \A x \in Accounts : Debited(Credited(b, a, m), a, m)[x] =
             IF x = a THEN Credited(b, a, m)[a] - m ELSE Credited(b, a, m)[x]
    BY <1>1, <2>3, DebitedFacts
  <2>5. \A x \in Accounts : Debited(Credited(b, a, m), a, m)[x] = b[x]
    <3> TAKE x \in Accounts
    <3>1. b[x] \in Nat /\ b[a] \in Nat /\ m \in Nat
      BY <1>1, <1>4
    <3>2. /\ Credited(b, a, m)[a] = b[a] + m
          /\ Credited(b, a, m)[x] = IF x = a THEN b[a] + m ELSE b[x]
      BY <1>1, <2>3
    <3>3. Debited(Credited(b, a, m), a, m)[x] =
             IF x = a THEN Credited(b, a, m)[a] - m ELSE Credited(b, a, m)[x]
      BY <2>4
    <3> HIDE DEF a, m
    <3> QED BY <3>1, <3>2, <3>3
  <2>6. Debited(Credited(b, a, m), a, m) = b
    BY <2>4, <2>5 DEF Balances
  <2>7. CanUndo(c, Executed(c, b))
    BY <1>1, <2>1, <2>3 DEF CanUndo, Covers, Balances
  <2> QED BY <2>2, <2>6, <2>7
<1> QED BY <1>2, <1>3, CommandFacts

\* The command the manager would undo, given IInv.
LEMMA LatestUndone ==
    ASSUME IInv, ~bypassed, history # <<>>
    PROVE  /\ Len(history) \in Nat \ {0}
           /\ Latest \in Command
           /\ CanUndo(Latest, balance)
           /\ snapshots[Len(history)] \in Balances
           /\ Undone(Latest, balance) = snapshots[Len(history)]
           /\ \A a \in Accounts : snapshots[Len(history)][a] \in 0 .. MaxBalance
<1> DEFINE n == Len(history)
<1>1. history \in Seq(Command) /\ snapshots \in Seq(Balances) /\ Len(snapshots) = n
  BY DEF IInv, TypeOK, Replays
<1>2. n \in Nat \ {0} /\ n \in DOMAIN history /\ n \in DOMAIN snapshots
  BY <1>1, EmptySeq
<1>3. Latest \in Command /\ Latest.executed /\ snapshots[n] \in Balances
  BY <1>1, <1>2 DEF Latest, IInv, HistoryExecuted
<1>4. balance = Executed(Latest, snapshots[n])
      /\ \A a \in Accounts : snapshots[n][a] \in 0 .. MaxBalance
  BY <1>1, <1>2 DEF IInv, Replays, After, Latest
<1>5. CanUndo(Latest, balance) /\ Undone(Latest, balance) = snapshots[n]
  BY <1>3, <1>4, UndoInverts, AccountAssumption
<1> QED BY <1>2, <1>3, <1>4, <1>5

-----------------------------------------------------------------------------
LEMMA InitIInv == Init => IInv
<1> SUFFICES ASSUME Init PROVE IInv
  OBVIOUS
<1>1. history = <<>> /\ snapshots = <<>> /\ bypassed = FALSE
  BY DEF Init
<1>2. balance \in Balances /\ NeverOverdrawn /\ InRange(balance)
  BY AccountAssumption DEF Init, NeverOverdrawn, InRange, Balances
<1>3. DOMAIN history = {} /\ Len(history) = 0 /\ Len(snapshots) = 0
  BY <1>1
<1>4. TypeOK
  <2>1. history \in Seq(Command) /\ snapshots \in Seq(Balances)
    BY <1>1, EmptySeq
  <2> QED BY <1>1, <1>2, <2>1 DEF TypeOK
<1>5. HistoryExecuted /\ Replays
  BY <1>3 DEF HistoryExecuted, Replays
<1> QED BY <1>2, <1>3, <1>4, <1>5 DEF IInv

\* Execute keeps IInv: the new snapshot is the balance before the command.
LEMMA ExecuteIInv ==
    ASSUME IInv, NEW kind \in {"debit", "credit"}, NEW a \in Accounts,
           NEW amount \in Amounts, Execute(NewCommand(kind, a, amount))
    PROVE  IInv'
<1> DEFINE c == NewCommand(kind, a, amount)
           d == [c EXCEPT !.executed = TRUE]
           n == Len(history)
<1>1. c \in Command /\ d \in Command /\ d.executed
  BY DEF Command, NewCommand
<1>2. /\ history \in Seq(Command) /\ snapshots \in Seq(Balances) /\ balance \in Balances
      /\ n \in Nat /\ bypassed \in BOOLEAN
  BY DEF IInv, TypeOK
<1>3. /\ balance' = Executed(c, balance)
      /\ history' = Append(history, d)
      /\ snapshots' = IF bypassed THEN <<>> ELSE Append(snapshots, balance)
      /\ bypassed' = bypassed
      /\ CanExecute(c, balance) /\ InRange(balance')
  BY DEF Execute, Marked
<1>4. Executed(d, balance) = Executed(c, balance) /\ CanExecute(d, balance)
  BY <1>3 DEF Executed, CanExecute, NewCommand
<1>5. TypeOK'
  BY <1>1, <1>2, <1>3, ExecutedType DEF TypeOK
<1>6. HistoryExecuted'
  BY <1>1, <1>2, <1>3 DEF IInv, HistoryExecuted
<1>7. NeverOverdrawn'
  BY <1>1, <1>2, <1>3, ExecutedNat DEF IInv, NeverOverdrawn
<1>8. ASSUME ~bypassed'
      PROVE  (Len(snapshots) = Len(history) /\ Replays)'
  <2>1. /\ ~bypassed /\ Len(snapshots) = n /\ Replays
        /\ snapshots' = Append(snapshots, balance)
    BY <1>3, <1>8 DEF IInv
  <2>2. Len(snapshots') = n + 1 /\ Len(history') = n + 1 /\ DOMAIN history' = 1 .. n + 1
    BY <1>2, <1>3, <2>1
  <2> SUFFICES ASSUME NEW k \in 1 .. n + 1
               PROVE  /\ CanExecute(history'[k], snapshots'[k])
                      /\ After(k)' = Executed(history'[k], snapshots'[k])
                      /\ \A x \in Accounts : snapshots'[k][x] \in 0 .. MaxBalance
    BY <2>2 DEF Replays
  <2>3. CASE k = n + 1
    <3>1. history'[k] = d /\ snapshots'[k] = balance
      BY <2>1, <2>3, <1>2, <1>3
    <3>2. After(k)' = balance'
      BY <2>2, <2>3 DEF After
    <3>3. \A x \in Accounts : balance[x] \in 0 .. MaxBalance
      BY <1>2, AccountAssumption DEF IInv, NeverOverdrawn, InRange, Balances
    <3> QED BY <3>1, <3>2, <3>3, <1>3, <1>4
  <2>4. CASE k \in 1 .. n
    <3>1. history'[k] = history[k] /\ snapshots'[k] = snapshots[k] /\ k \in DOMAIN history
      BY <2>1, <2>4, <1>2, <1>3
    <3>2. After(k)' = After(k)
      BY <2>1, <2>2, <2>4, <1>2 DEF After
    <3> QED BY <2>1, <3>1, <3>2 DEF Replays
  <2> QED BY <2>3, <2>4, <1>2
<1> QED BY <1>3, <1>5, <1>6, <1>7, <1>8 DEF IInv

\* Undoing a command overdraws no account either, whatever happened since.
LEMMA UndoneNat ==
    ASSUME NEW c \in Command, NEW b \in Balances, CanUndo(c, b),
           \A a \in Accounts : b[a] >= 0
    PROVE  /\ Undone(c, b) \in Balances
           /\ \A a \in Accounts : Undone(c, b)[a] >= 0
<1> DEFINE a == c.account
           m == c.amount
<1>1. a \in Accounts /\ m \in Nat /\ (c.kind = "debit" \/ c.kind = "credit")
  BY CommandFacts
<1>2. CASE ~c.executed
  BY <1>2 DEF Undone
<1>3. CASE c.executed /\ c.kind = "debit"
  <2>1. Undone(c, b) = Credited(b, a, m)
    BY <1>3 DEF Undone
  <2> SUFFICES ASSUME NEW x \in Accounts PROVE Credited(b, a, m)[x] >= 0
    BY <1>1, <2>1, CreditedFacts
  <2>2. Credited(b, a, m)[x] = IF x = a THEN b[a] + m ELSE b[x]
    BY <1>1, CreditedFacts
  <2>3. b[x] \in Nat /\ b[a] \in Nat
    BY <1>1, NatBalances
  <2> HIDE DEF a, m
  <2> QED BY <1>1, <2>2, <2>3
<1>4. CASE c.executed /\ c.kind = "credit"
  <2>1. Undone(c, b) = Debited(b, a, m) /\ m <= b[a]
    BY <1>4 DEF Undone, CanUndo, Covers
  <2> SUFFICES ASSUME NEW x \in Accounts PROVE Debited(b, a, m)[x] >= 0
    BY <1>1, <2>1, DebitedFacts
  <2>2. Debited(b, a, m)[x] = IF x = a THEN b[a] - m ELSE b[x]
    BY <1>1, DebitedFacts
  <2>3. b[x] \in Nat /\ b[a] \in Nat
    BY <1>1, NatBalances
  <2> HIDE DEF a, m
  <2> QED BY <1>1, <2>1, <2>2, <2>3
<1> QED BY <1>1, <1>2, <1>3, <1>4

\* history_.pop_back()
LEMMA ForgetFacts ==
    ASSUME NEW S, NEW seq \in Seq(S), Len(seq) \in Nat \ {0}
    PROVE  /\ Forget(seq) \in Seq(S) /\ Len(Forget(seq)) = Len(seq) - 1
           /\ \A k \in 1 .. Len(seq) - 1 : Forget(seq)[k] = seq[k]
<1> DEFINE m == Len(seq) - 1
<1>1. m \in Nat /\ 1 <= m + 1 /\ \A k \in 1 .. m : seq[k] \in S
  BY LenProperties
<1>2. /\ SubSeq(seq, 1, m) \in Seq(S)
      /\ Len(SubSeq(seq, 1, m)) = IF 1 <= m THEN m - 1 + 1 ELSE 0
      /\ \A k \in 1 .. m - 1 + 1 : SubSeq(seq, 1, m)[k] = seq[1 + k - 1]
  BY <1>1, SubSeqProperties
<1>3. Forget(seq) = SubSeq(seq, 1, m)
  BY DEF Forget
<1> HIDE DEF m
<1>4. /\ Len(Forget(seq)) = m
      /\ \A k \in 1 .. m : Forget(seq)[k] = seq[k]
  BY <1>1, <1>2, <1>3
<1> QED BY <1>2, <1>3, <1>4 DEF m

\* Rollback keeps IInv: the balance becomes the latest snapshot, if there is one.
LEMMA RollbackIInv ==
    ASSUME IInv, Rollback
    PROVE  IInv' /\ (~bypassed => balance' = snapshots[Len(snapshots)])
<1> DEFINE n == Len(history)
<1>1. /\ history \in Seq(Command) /\ snapshots \in Seq(Balances) /\ balance \in Balances
      /\ history # <<>> /\ bypassed \in BOOLEAN
      /\ CanUndo(Latest, balance)
      /\ balance' = Undone(Latest, balance) /\ InRange(balance')
      /\ history' = Forget(history) /\ bypassed' = bypassed
      /\ snapshots' = IF bypassed THEN <<>> ELSE Forget(snapshots)
  BY DEF IInv, TypeOK, Rollback
<1>2. n \in Nat \ {0} /\ Latest \in Command
  BY <1>1, EmptySeq DEF Latest
<1>3. balance' \in Balances /\ NeverOverdrawn'
  BY <1>1, <1>2, UndoneNat DEF IInv, NeverOverdrawn
<1>4. /\ history' \in Seq(Command) /\ Len(history') = n - 1
      /\ \A k \in 1 .. n - 1 : history'[k] = history[k]
  BY <1>1, <1>2, ForgetFacts
<1>5. HistoryExecuted'
  <2>1. \A k \in 1 .. n : history[k].executed
    BY <1>1 DEF IInv, HistoryExecuted
  <2>2. DOMAIN history' = 1 .. n - 1
    BY <1>2, <1>4
  <2> QED BY <1>2, <1>4, <2>1, <2>2 DEF HistoryExecuted
<1>6. ASSUME ~bypassed
      PROVE  /\ snapshots' \in Seq(Balances)
             /\ balance' = snapshots[Len(snapshots)]
             /\ (Len(snapshots) = Len(history) /\ Replays)'
  <2>1. Len(snapshots) = n /\ Replays
    BY <1>6 DEF IInv
  <2>2. balance' = snapshots[n]
    BY <1>1, <1>6, LatestUndone
  <2>3. /\ snapshots' \in Seq(Balances) /\ Len(snapshots') = n - 1
        /\ \A k \in 1 .. n - 1 : snapshots'[k] = snapshots[k]
    BY <1>1, <1>2, <1>6, <2>1, ForgetFacts
  <2>4. Replays'
    <3> SUFFICES ASSUME NEW k \in 1 .. n - 1
                 PROVE  /\ CanExecute(history'[k], snapshots'[k])
                        /\ After(k)' = Executed(history'[k], snapshots'[k])
                        /\ \A x \in Accounts : snapshots'[k][x] \in 0 .. MaxBalance
      BY <1>4 DEF Replays
    <3>1. k \in DOMAIN history /\ history'[k] = history[k] /\ snapshots'[k] = snapshots[k]
      BY <1>1, <1>2, <1>4, <2>3
    <3>2. After(k)' = After(k)
      <4>1. CASE k = n - 1
        BY <4>1, <1>2, <2>1, <2>2, <2>3 DEF After
      <4>2. CASE k # n - 1
        BY <4>2, <1>2, <2>1, <2>3 DEF After
      <4> QED BY <4>1, <4>2
    <3> QED BY <2>1, <3>1, <3>2 DEF Replays
  <2> QED BY <1>4, <2>1, <2>2, <2>3, <2>4
<1>7. TypeOK'
  BY <1>1, <1>3, <1>4, <1>6 DEF TypeOK
<1> QED BY <1>1, <1>3, <1>5, <1>6, <1>7 DEF IInv

\* A change the manager does not see ends its snapshots.
LEMMA UnrecordedIInv ==
    ASSUME IInv, NEW kind \in {"debit", "credit"}, NEW a \in Accounts,
           NEW amount \in Amounts, Unrecorded(NewCommand(kind, a, amount))
    PROVE  IInv'
<1> DEFINE c == NewCommand(kind, a, amount)
<1>1. c \in Command
  BY DEF Command, NewCommand
<1>2. /\ balance' = Executed(c, balance) /\ CanExecute(c, balance) /\ InRange(balance')
      /\ history' = history /\ snapshots' = <<>> /\ bypassed' = TRUE
      /\ balance \in Balances /\ history \in Seq(Command)
  BY DEF Unrecorded, IInv, TypeOK
<1>3. TypeOK'
  BY <1>1, <1>2, ExecutedType DEF TypeOK
<1>4. NeverOverdrawn'
  BY <1>1, <1>2, ExecutedNat DEF IInv, NeverOverdrawn
<1> QED BY <1>2, <1>3, <1>4 DEF IInv, HistoryExecuted

LEMMA NextIInv == IInv /\ [Next]_vars => IInv'
<1> SUFFICES ASSUME IInv, [Next]_vars PROVE IInv'
  OBVIOUS
<1>1. CASE \E kind \in {"debit", "credit"}, a \in Accounts, amount \in Amounts :
             \/ Execute(NewCommand(kind, a, amount))
             \/ Unrecorded(NewCommand(kind, a, amount))
  BY <1>1, ExecuteIInv, UnrecordedIInv
<1>2. CASE Rollback
  BY <1>2, RollbackIInv
<1>3. CASE Throws \/ UNCHANGED vars
  BY <1>3
  DEF Throws, vars, IInv, TypeOK, HistoryExecuted, Replays, After, NeverOverdrawn, InRange
<1> QED BY <1>1, <1>2, <1>3 DEF Next

-----------------------------------------------------------------------------
\* The inductive invariant of AccountManager::Execute and Rollback: types, and
\* the balances are what the remembered commands made of the snapshots.
THEOREM Invariance == Spec => []IInv
BY InitIInv, NextIInv, PTL DEF Spec

\* AccountManager::Rollback never throws and never overflows a balance while
\* all accounts are only used through the manager.
THEOREM RollbackWorks == Spec => []RollbackAlwaysWorks
<1>1. IInv => RollbackAlwaysWorks
  <2> SUFFICES ASSUME IInv, ~bypassed, history # <<>>
               PROVE  CanUndo(Latest, balance) /\ InRange(Undone(Latest, balance))
    BY DEF RollbackAlwaysWorks
  <2> QED BY LatestUndone, AccountAssumption DEF InRange
<1> QED BY <1>1, Invariance, PTL

\* AccountManager::Rollback restores the balances before the command it undoes.
THEOREM RollbackRestoresAll == Spec => RollbackRestores
<1>1. IInv /\ [Next]_vars =>
        [Rollback /\ ~bypassed => balance' = snapshots[Len(snapshots)]]_vars
  BY RollbackIInv
<1> QED BY <1>1, Invariance, PTL DEF Spec, RollbackRestores

\* Account::Debit keeps every balance from becoming negative, in whatever way
\* the accounts are used.
THEOREM NoOverdraft == Spec => []NeverOverdrawn
BY Invariance, PTL DEF IInv
=============================================================================
