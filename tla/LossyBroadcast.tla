--------------------------- MODULE LossyBroadcast ---------------------------
(***************************************************************************)
(* What the event hub promises its subscribers: a connection hears, at     *)
(* most once, only events published so far that it may hear, and those of  *)
(* one publisher in the order they were published.  It may miss any.       *)
(***************************************************************************)
EXTENDS Integers, Sequences

CONSTANTS
    Conns, Viewer, SeesAll,     \* connections, the user of each, and those of an overseer
    Events                      \* records with id, from, to (nobody: public) and private

VARIABLES
    published,      \* events published so far
    heard           \* what each connection heard, in order

vars == <<published, heard>>

\* Public events are for all, the others for those they name; an overseer hears
\* what is not private besides.
Audience(e) ==
    IF e.to = {} THEN Conns
    ELSE {c \in Conns : Viewer[c] \in e.to} \cup IF e.private THEN {} ELSE SeesAll

Init == published = {} /\ heard = [c \in Conns |-> <<>>]

Publish(e) ==
    /\ \A d \in published : d.id # e.id
    /\ published' = published \cup {e} /\ UNCHANGED heard

Hear(c, e) ==
    /\ e \in published /\ c \in Audience(e)
    /\ \A i \in DOMAIN heard[c] :
          heard[c][i].id # e.id /\ (heard[c][i].from = e.from => heard[c][i].id < e.id)
    /\ heard' = [heard EXCEPT ![c] = Append(@, e)] /\ UNCHANGED published

Next == \E e \in Events : Publish(e) \/ \E c \in Conns : Hear(c, e)

Spec == Init /\ [][Next]_vars
=============================================================================
