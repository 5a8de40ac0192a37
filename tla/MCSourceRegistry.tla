--------------------------- MODULE MCSourceRegistry ---------------------------
(* The instance of SourceRegistry for TLC: one source is registered, one more *)
(* may be.                                                                    *)
EXTENDS SourceRegistry

MCRows == [s \in Sources |-> IF s = "s1" THEN [name |-> "n1", host |-> "h1", password |-> "p1", status |-> "UNKNOWN"]
                             ELSE Absent]
Send(n, h, p) == [name |-> n, host |-> h, password |-> p]
MCCreations == {Send("n1", "h1", Blank), Send("n2", "h2", "p2")}
MCEdits == {Send("n2", Keep, Keep), Send(Keep, "h2", Keep), Send(Keep, Keep, Blank), Send(Keep, "h2", "p2")}
==============================================================================
