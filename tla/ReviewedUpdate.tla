--------------------------- MODULE ReviewedUpdate ---------------------------
(***************************************************************************)
(* What a repository transaction promises: a reviewed set of changes       *)
(* happens all at once, from exactly the contents that were reviewed, or   *)
(* not at all.                                                             *)
(***************************************************************************)
CONSTANTS Procs, Paths, Contents0

VARIABLES
    content,    \* content of every path
    reviewed    \* the change each invocation may still make

vars == <<content, reviewed>>

Nothing == [before |-> [path \in {} |-> {}], after |-> [path \in {} |-> {}]]

Init ==
    /\ content \in [Paths -> Contents0]
    /\ reviewed = [p \in Procs |-> Nothing]

Review(p) ==
    /\ reviewed[p] = Nothing
    /\ \E D \in (SUBSET Paths) \ {{}} : \E old, new \in [D -> Contents0] :
           reviewed' = [reviewed EXCEPT ![p] = [before |-> old, after |-> new]]
    /\ UNCHANGED content

Withdraw(p) ==
    /\ reviewed' = [reviewed EXCEPT ![p] = Nothing]
    /\ UNCHANGED content

Apply(p) ==
    LET old == reviewed[p].before
        new == reviewed[p].after
    IN  /\ reviewed[p] # Nothing
        /\ \A path \in DOMAIN old : content[path] = old[path]
        /\ content' = [path \in Paths |->
                          IF path \in DOMAIN new THEN new[path] ELSE content[path]]
        /\ reviewed' = [reviewed EXCEPT ![p] = Nothing]

Edit(path) ==
    /\ \E new \in Contents0 : content' = [content EXCEPT ![path] = new]
    /\ UNCHANGED reviewed

Next ==
    \/ \E p \in Procs : Withdraw(p) \/ Apply(p) \/ Review(p)
    \/ \E path \in Paths : Edit(path)

Spec == Init /\ [][Next]_vars
=============================================================================
