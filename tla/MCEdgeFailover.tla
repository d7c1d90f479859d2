---------------------------- MODULE MCEdgeFailover ----------------------------
(* Two controllers: the first has two equivalent URLs, the second a public   *)
(* one and a private one.                                                    *)
EXTENDS EdgeFailover

CONSTANTS Alpha, Beta

ClientOf(c)  == [controller |-> c, private |-> FALSE, path |-> "client"]
MCUrls       == {ClientOf(Alpha), [ClientOf(Alpha) EXCEPT !.path = "base"],
                 ClientOf(Beta), [ClientOf(Beta) EXCEPT !.private = TRUE]}
MCMgmts      == {None, Unparsable, [ClientOf(Beta) EXCEPT !.path = "management"]}
MCFewMgmts   == {None}
=============================================================================
