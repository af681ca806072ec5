------------------------ MODULE ConfigurationProofs ------------------------
(***************************************************************************)
(* What the operators on Configuration objects return, for the proofs of   *)
(* the systems that are built from them.                                   *)
(***************************************************************************)
EXTENDS Configuration, TLAPS

(* A new object, and the absence of one, have the type. *)
LEMMA FreshType ==
    ASSUME NEW e \in BOOLEAN, NEW u \in Nat
    PROVE  Fresh(e, u) \in ConfigurationObject
BY DEF Fresh, ConfigurationObject, ConditionStatus

(* No object has been created yet. *)
LEMMA NoConfigType == NoConfig \in ConfigurationObject /\ ~NoConfig.exists
<1>1. NoConfig \in ConfigurationObject
  BY FreshType DEF NoConfig
<1>2. ~NoConfig.exists
  BY DEF NoConfig, Fresh
<1>3. QED
  BY <1>1, <1>2

(* An object that loses its last finalizer goes, any other stays. *)
LEMMA SettleType ==
    ASSUME NEW c \in ConfigurationObject
    PROVE  Settle(c) \in ConfigurationObject
<1>1. c.uid \in Nat
  BY DEF ConfigurationObject
<1>2. Gone(c) \in ConfigurationObject
  BY <1>1, FreshType DEF Gone
<1>3. QED
  BY <1>2 DEF Settle

(* A delete request keeps the type. *)
LEMMA RequestDeletionType ==
    ASSUME NEW c \in ConfigurationObject, NEW f \in BOOLEAN
    PROVE  RequestDeletion(c, f) \in ConfigurationObject
<1>1. [c EXCEPT !.deleting = TRUE, !.held = @ \/ f] \in ConfigurationObject
  BY DEF ConfigurationObject
<1>2. QED
  BY <1>1, SettleType DEF RequestDeletion

(* A merge patch of the status keeps the type of the stored object. *)
LEMMA MergeStatusType ==
    ASSUME NEW stored \in ConfigurationObject, NEW o \in ConfigurationObject,
           NEW c \in ConfigurationObject, NEW d \in BOOLEAN
    PROVE  MergeStatus(stored, o, c, d) \in ConfigurationObject
BY DEF MergeStatus, ConfigurationObject

(* So does SetCondition. *)
LEMMA SetConditionType ==
    ASSUME NEW c \in ConfigurationObject, NEW t \in ConditionTypes,
           NEW s \in ConditionStatus
    PROVE  SetCondition(c, t, s) \in ConfigurationObject
BY DEF SetCondition, ConfigurationObject

(* initializeConditions leaves identity and status alone. *)
LEMMA InitializeConditionsType ==
    ASSUME NEW c \in ConfigurationObject
    PROVE  /\ initializeConditions(c) \in ConfigurationObject
           /\ initializeConditions(c).uid = c.uid
           /\ initializeConditions(c).status = c.status
BY DEF initializeConditions, ConfigurationObject, ConditionStatus

=============================================================================
