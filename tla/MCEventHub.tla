----------------------------- MODULE MCEventHub -----------------------------
(* Two publishers, a browser of a user and one of a superuser who sees all. *)
EXTENDS EventHub

CONSTANTS h1, h2, tab, desk, ann, root

MCPublishers == {h1, h2}
MCConns == {tab, desk}
MCViewers == {ann, root}
MCViewer == [c \in MCConns |-> IF c = tab THEN ann ELSE root]
MCSeesAll == {desk}
MCKinds == {[to |-> {}, private |-> FALSE], [to |-> {ann}, private |-> FALSE],
            [to |-> {ann}, private |-> TRUE]}
=============================================================================
