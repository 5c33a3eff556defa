---------------------------- MODULE RefreshChain ----------------------------
(***************************************************************************)
(* What the rotation of refresh tokens promises its clients, without       *)
(* transactions, races or retries: an issued token has at most one         *)
(* successor, which is chosen once, is a token never issued before, and is *)
(* what every reply to that token gives.                                   *)
(***************************************************************************)
CONSTANT Token

VARIABLES
    issued,    \* every token that exists
    links,     \* [asked, given] pairs: given is asked's successor
    answered   \* the pairs clients have been told

vars == <<issued, links, answered>>

Link(t, u) == [asked |-> t, given |-> u]

Init == issued = {} /\ links = {} /\ answered = {}

Issue(t) ==
    /\ t \notin issued
    /\ issued' = issued \cup {t}
    /\ UNCHANGED <<links, answered>>

\* The reply that announces the exchange may get lost.
Exchange(t, u) ==
    /\ t \in issued
    /\ \A l \in links : l.asked # t
    /\ u \notin issued
    /\ issued' = issued \cup {u}
    /\ links' = links \cup {Link(t, u)}
    /\ answered' = answered \/ answered' = answered \cup {Link(t, u)}

Answer(l) ==
    /\ l \in links
    /\ answered' = answered \cup {l}
    /\ UNCHANGED <<issued, links>>

Next ==
    \/ \E t \in Token : Issue(t)
    \/ \E t, u \in Token : Exchange(t, u)
    \/ \E l \in links : Answer(l)

Spec == Init /\ [][Next]_vars

\* A token has one successor and is the successor of one token.
OneToOne ==
    \A k, l \in links : k.asked = l.asked \/ k.given = l.given => k = l

\* Clients are told links only, so never two successors of a token.
AnswersAreLinks == answered \subseteq links

=============================================================================
