--------------------------- MODULE StackLifecycle ---------------------------
(***************************************************************************)
(* What the operator promises about the life of a kube-ovn stack.  The     *)
(* cluster-scoped objects of the stack hang on an anchor (the fake         *)
(* Namespace).  It is opened for a Configuration that a finalizer keeps    *)
(* and closed for one whose deletion was requested, and no Configuration   *)
(* is released before.  A deletion may lose the anchor: then it goes       *)
(* astray until the next Configuration takes it over, or until a           *)
(* repetition of the deletion closes it after all; but nothing ever closes *)
(* an anchor under a Configuration that is in use.                         *)
(***************************************************************************)

VARIABLES
    life,    \* the Configuration
    anchor   \* the owner of the cluster-scoped objects

vars == <<life, anchor>>

Lives   == {"absent", "new", "guarded", "ending", "released"}
Anchors == {"none", "open", "stray", "closing"}

Init == life = "absent" /\ anchor = "none"

Create == life = "absent" /\ life' = "new" /\ UNCHANGED anchor

Guard == life = "new" /\ life' = "guarded" /\ UNCHANGED anchor

(* Nothing keeps a new Configuration but foreground deletion. *)
Discard == life = "new" /\ life' \in {"absent", "released"} /\ UNCHANGED anchor

RequestDeletion == life = "guarded" /\ life' = "ending" /\ UNCHANGED anchor

(* A new anchor is made, or a stray one taken over. *)
Open ==
    /\ life \in {"guarded", "ending"}
    /\ anchor \in {"none", "stray"}
    /\ anchor' = "open"
    /\ UNCHANGED life

Close ==
    /\ \/ anchor = "open" /\ life = "ending"
       \/ anchor = "stray" /\ life # "guarded"
    /\ anchor' = "closing"
    /\ UNCHANGED life

Closed == anchor = "closing" /\ anchor' = "none" /\ UNCHANGED life

(* Only the deletion itself loses the anchor. *)
Lose ==
    /\ life = "ending"
    /\ anchor = "open"
    /\ anchor' = "stray"
    /\ UNCHANGED life

Release ==
    /\ life = "ending"
    /\ anchor # "open"
    /\ life' \in {"absent", "released"}
    /\ UNCHANGED anchor

Vanish == life = "released" /\ life' = "absent" /\ UNCHANGED anchor

Next ==
    \/ Create \/ Guard \/ Discard \/ RequestDeletion
    \/ Open \/ Close \/ Closed \/ Lose
    \/ Release \/ Vanish

Spec == Init /\ [][Next]_vars

=============================================================================
