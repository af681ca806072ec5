----------------------------- MODULE Defaulting -----------------------------
(***************************************************************************)
(* The resources of a Configuration's spec and the two places that fill    *)
(* them in: the defaults of the schema, which the API server applies to a  *)
(* request, and the defaulting webhook                                     *)
(* (internal/webhook/v1/configuration_webhook.go).                         *)
(*                                                                         *)
(* cpu is counted in thousandths, memory in Mi, ephemeralStorage in Gi;    *)
(* zero is a quantity that IsZero.                                         *)
(***************************************************************************)
EXTENDS Naturals

Parts      == {"requests", "limits"}
Quantities == {"cpu", "memory", "ephemeralStorage"}
CPUMemSpec == [Quantities -> Nat]

ResourceFields ==
    {"ovnCentral", "ovsOVN", "kubeOvnController", "kubeOvnCNI", "kubeOvnPinger",
     "kubeOvnMonitor"}

CPUMem(cpu, memory, storage) ==
    [cpu |-> cpu, memory |-> memory, ephemeralStorage |-> storage]

Zero == CPUMem(0, 0, 0)

Resources(cpu, memory, cpuLimit, memoryLimit, storageLimit) ==
    [ requests |-> CPUMem(cpu, memory, 0),
      limits   |-> CPUMem(cpuLimit, memoryLimit, storageLimit) ]

----------------------------------------------------------------------------
(* What an author writes: a field, or one of its parts, may be left out;   *)
(* it is the set of the one value that is written, or the empty set.       *)

Absent == {}

Or(given, default) == IF given = Absent THEN default ELSE CHOOSE v \in given : TRUE

ResourceSpec == [Parts -> CPUMemSpec]

Optional(S) == { s \in SUBSET S : \A v, w \in s : v = w }

WrittenSpec == [ResourceFields -> Optional([Parts -> Optional(CPUMemSpec)])]

(* The default of each field, and those of its parts if the field is there. *)
FieldDefault ==
    [ ovnCentral        |-> [requests |-> Zero, limits |-> Zero],
      ovsOVN            |-> Resources(200, 200, 2000, 1000, 0),
      kubeOvnController |-> Resources(200, 200, 1000, 1000, 0),
      kubeOvnCNI        |-> Resources(100, 100, 1000, 1000, 0),
      kubeOvnPinger     |-> Resources(100, 100, 200, 400, 0),
      kubeOvnMonitor    |-> Resources(200, 200, 200, 200, 0) ]

PartDefault == Resources(200, 200, 2000, 1000, 1)

(* The API server fills in what the request leaves out. *)
Structural(field, given) ==
    Or({[p \in Parts |-> Or(r[p], PartDefault[p])] : r \in given}, FieldDefault[field])

(* A Go client sends every part: a quantity that is not set is sent as "0". *)
Marshalled(given) ==
    Or({[p \in Parts |-> Or(r[p], Zero)] : r \in given}, [p \in Parts |-> Zero])

----------------------------------------------------------------------------
(* The webhook.                                                            *)

DefaultResources ==
    [ ovnCentral        |-> Resources(300, 200, 3000, 4096, 1),
      ovsOVN            |-> Resources(200, 200, 2000, 1000, 1),
      kubeOvnController |-> Resources(200, 200, 1000, 1024, 1),
      kubeOvnCNI        |-> Resources(100, 100, 1000, 1024, 1),
      kubeOvnPinger     |-> Resources(100, 100, 200, 400, 1),
      kubeOvnMonitor    |-> Resources(200, 200, 200, 200, 1) ]

OnlyRequests(resource, default) ==
    [resource EXCEPT !.requests = [q \in Quantities |->
        IF @[q] = 0 THEN default.requests[q] ELSE @[q]]]

applyDefaults(resource, default) ==
    [p \in Parts |-> [q \in Quantities |->
        IF resource[p][q] = 0 THEN default[p][q] ELSE resource[p][q]]]

ApplyConfigurationDefaults(spec) ==
    [f \in ResourceFields |-> applyDefaults(spec[f], DefaultResources[f])]

=============================================================================
