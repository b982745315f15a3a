--------------------------- MODULE MCSmallPrograms ---------------------------
\* Small programs: one colour and one sprite hold a comma, one message a NUL.
EXTENDS SmallPrograms

MCColors   == {<<"grey">>, <<"grey", ",">>}
MCSprites  == {<<"star">>, <<",", "star">>}
MCKSteps      == {-7, -1, 0, 5, 31}
MCBookVolumes == {-1, 0, 1, 2}
MCLeaves      == {<<1>>, <<2>>}

MCMessages == {<<"a">>, <<"a", "NUL", "b">>}
=============================================================================
