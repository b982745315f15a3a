--------------------------- MODULE AccountManager ---------------------------
(***************************************************************************)
(* The command pattern: accounts, the debit and credit commands on them,   *)
(* and the AccountManager that executes commands, remembers them, and      *)
(* rolls the latest back.  A command that cannot debit throws.             *)
(***************************************************************************)
EXTENDS Integers, Sequences

CONSTANTS
    Accounts,
    Amounts,     \* what a command debits or credits
    Opening,     \* the balance an account is opened with
    MaxBalance,  \* bound: a balance beyond it would overflow an int
    MaxHistory   \* bound on the commands remembered

ASSUME AccountAssumption ==
    /\ Amounts \subseteq Nat
    /\ MaxBalance \in Nat /\ Opening \in 0 .. MaxBalance
    /\ MaxHistory \in Nat

VARIABLES
    balance,   \* balance_ of each account
    history,   \* the commands executed and not rolled back
    snapshots, \* history: all balances before each of them, if not bypassed
    bypassed   \* history: an account changed without the manager's knowledge

vars == <<balance, history, snapshots, bypassed>>

Command == [kind : {"debit", "credit"}, account : Accounts, amount : Amounts,
            executed : BOOLEAN]
Balances == [Accounts -> Int]

TypeOK ==
    /\ balance \in Balances
    /\ history \in Seq(Command)
    /\ snapshots \in Seq(Balances)
    /\ bypassed \in BOOLEAN

Init ==
    /\ balance = [a \in Accounts |-> Opening]
    /\ history = <<>>
    /\ snapshots = <<>>
    /\ bypassed = FALSE

-----------------------------------------------------------------------------
(* Account.                                                                *)

\* Debit returns false when the amount is more than the balance.
Covers(balances, a, amount)   == amount <= balances[a]
Debited(balances, a, amount)  == [balances EXCEPT ![a] = @ - amount]
Credited(balances, a, amount) == [balances EXCEPT ![a] = @ + amount]

InRange(balances) == \A a \in Accounts : balances[a] <= MaxBalance

\* Whether Execute and Undo of a command go through, and what they make of the
\* balances.
CanExecute(c, balances) == c.kind = "debit" => Covers(balances, c.account, c.amount)
Executed(c, balances) ==
    IF c.kind = "debit" THEN Debited(balances, c.account, c.amount)
                        ELSE Credited(balances, c.account, c.amount)

\* Mutant: what Account::Debit returns is not checked.
CanAlwaysUndo(c, balances) == TRUE

CanUndo(c, balances) ==
    c.executed /\ c.kind = "credit" => Covers(balances, c.account, c.amount)
\* Mutant: both commands credit.
UndoneByCredit(c, balances) ==
    IF ~c.executed THEN balances ELSE Credited(balances, c.account, c.amount)

Undone(c, balances) ==
    IF ~c.executed THEN balances
    ELSE IF c.kind = "debit" THEN Credited(balances, c.account, c.amount)
                             ELSE Debited(balances, c.account, c.amount)

-----------------------------------------------------------------------------
(* AccountManager.                                                         *)

NewCommand(kind, a, amount) ==
    [kind |-> kind, account |-> a, amount |-> amount, executed |-> FALSE]

\* executed_ = true.  Mutant: it is not set.
Unmarked(c) == c
Marked(c)   == [c EXCEPT !.executed = TRUE]

Execute(c) ==
    /\ CanExecute(c, balance) /\ InRange(Executed(c, balance))
    /\ Len(history) < MaxHistory
    /\ balance' = Executed(c, balance)
    /\ history' = Append(history, Marked(c))
    /\ snapshots' = IF bypassed THEN <<>> ELSE Append(snapshots, balance)
    /\ UNCHANGED bypassed

\* Mutant: history_.front().
Earliest == history[1]

Latest == history[Len(history)]
Forget(seq) == SubSeq(seq, 1, Len(seq) - 1)

Rollback ==
    /\ history # <<>> /\ CanUndo(Latest, balance) /\ InRange(Undone(Latest, balance))
    /\ balance' = Undone(Latest, balance)
    /\ history' = Forget(history)
    /\ snapshots' = IF bypassed THEN <<>> ELSE Forget(snapshots)
    /\ UNCHANGED bypassed

\* A command throws in Execute, or in the Undo of a rollback: it changes nothing
\* and the history stays.
Throws ==
    /\ \/ \E a \in Accounts, amount \in Amounts :
            ~CanExecute(NewCommand("debit", a, amount), balance)
       \/ history # <<>> /\ ~CanUndo(Latest, balance)
    /\ UNCHANGED vars

\* What the manager does not see: a client uses an account itself, or the
\* push_back that should remember an executed command throws.
Unrecorded(c) ==
    /\ CanExecute(c, balance) /\ InRange(Executed(c, balance))
    /\ balance' = Executed(c, balance)
    /\ bypassed' = TRUE
    /\ snapshots' = <<>>
    /\ UNCHANGED history

Next ==
    \/ \E kind \in {"debit", "credit"}, a \in Accounts, amount \in Amounts :
         \/ Execute(NewCommand(kind, a, amount))
         \/ Unrecorded(NewCommand(kind, a, amount))
    \/ Rollback
    \/ Throws

Spec == Init /\ [][Next]_vars

-----------------------------------------------------------------------------
(* Properties.                                                             *)

\* While all accounts are only used through the manager, a rollback never
\* throws, although undoing a credit is a debit that may fail, and never
\* overflows.
RollbackAlwaysWorks == ~bypassed /\ history # <<>> =>
    CanUndo(Latest, balance) /\ InRange(Undone(Latest, balance))

\* A rollback then restores every balance to what it was before the command it
\* undoes, however many commands were executed and rolled back since.
RollbackRestores ==
    [][Rollback /\ ~bypassed => balance' = snapshots[Len(snapshots)]]_vars

\* No account is ever overdrawn, bypassed or not.
NeverOverdrawn == \A a \in Accounts : balance[a] >= 0

\* What is undone was executed: Undo never returns early.
HistoryExecuted == \A k \in DOMAIN history : history[k].executed

\* The snapshots and the balances follow from each other by the commands.
After(k) == IF k = Len(snapshots) THEN balance ELSE snapshots[k + 1]
Replays == \A k \in DOMAIN history :
    /\ CanExecute(history[k], snapshots[k])
    /\ After(k) = Executed(history[k], snapshots[k])
    /\ \A a \in Accounts : snapshots[k][a] \in 0 .. MaxBalance

\* The inductive invariant.
IInv ==
    /\ TypeOK /\ HistoryExecuted /\ NeverOverdrawn /\ InRange(balance)
    /\ ~bypassed => Len(snapshots) = Len(history) /\ Replays
=============================================================================
