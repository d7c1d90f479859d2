--------------------------- MODULE MCTunnelWebhook ---------------------------
(***************************************************************************)
(* Instances of TunnelWebhook for TLC: a few reviews of one or two pods.    *)
(***************************************************************************)
EXTENDS TunnelWebhook, Naturals, TLC

CONSTANTS r1, s1, s2

\* One webhook process (replicas: 1 in values.yaml), or two.
OneServer  == [r \in Requests |-> s1]
TwoServers == [r \in Requests |-> IF r = r1 THEN s1 ELSE s2]

\* With one process the reviews are interchangeable; the pods always are.
Symmetry == Permutations(Requests) \union Permutations(Pods)

\* With two, those that are served by the second one are.
SameServer == Permutations(Requests \ {r1})

\* Bound of the run with four reviews: at most two of them are CREATEs, one is an UPDATE
\* and two are served at once, and a namespace is opted out after one or two of them.
Count(op) == Cardinality({r \in Requests : review[r].op = op})

FourReviews ==
    /\ Count("CREATE") <= 2 /\ Count("UPDATE") <= 1
    /\ Cardinality({r \in Requests : pc[r] \in Serving}) <= 2
    /\ optedOut # {} => Cardinality({r \in Requests : pc[r] # "idle"}) <= 2
=============================================================================
