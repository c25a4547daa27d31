------------------------ MODULE MCRecentConnections -------------------------
(* An instance of RecentConnections for TLC: three connections, one of them  *)
(* with a domain, one with two passwords; and forms that are not valid.      *)
EXTENDS RecentConnections

CONSTANTS h1, h2, u, p1, p2, d

MCTexts == {NoText, h1, h2, u, p1, p2, d}
MCPorts == {0, 3389, 65536}

Form(host, port, password, domain) ==
    [host |-> host, port |-> port, username |-> u, password |-> password, domain |-> domain]

MCInputs == {Form(h1, 3389, p1, NoText), Form(h1, 3389, p2, NoText),
             Form(h1, 3389, p1, d), Form(h2, 3389, p1, NoText),
             Form(h1, 0, p1, NoText), Form(h1, 65536, p1, NoText),
             Form(NoText, 3389, p1, NoText), Form(h2, 3389, NoText, NoText)}

(* Kept is SelectSeq, which the proofs could not use.                        *)
ASSUME KeptIsSelectSeq ==
    \A n \in 0 .. 4 : \A items \in [1 .. n -> 1 .. 3], S \in SUBSET (1 .. 3) :
        LET inS(x) == x \in S
        IN  Kept(items, {i \in 1 .. n : items[i] \in S}) = SelectSeq(items, inS)
=============================================================================
