-------------------------- MODULE MCOperationalQueue --------------------------
(* Small instances of OperationalQueue for TLC.                             *)
EXTENDS OperationalQueue

OneWork   == {1}
FiveWorks == 1..5
LastWork  == {5}

AllRoutine == [w \in Works |-> "ROUTINE"]

ThreeClasses == [w \in Works |-> CASE w <= 2 -> "URGENT"
                                  [] w = 3 -> "PLANNED"
                                  [] OTHER -> "ROUTINE"]

NoKind   == {}
TwoKinds == {"RETRYABLE", "NON_RETRYABLE"}

LongDeadline   == {<<1, 6>>, <<0, 9>>}
TightDeadlines == {<<0, 1>>, <<1, 1>>}

LongRange  == 0..9
OneInstant == {1}
=============================================================================
