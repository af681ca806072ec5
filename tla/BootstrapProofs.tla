--------------------------- MODULE BootstrapProofs ---------------------------
(***************************************************************************)
(* Proofs about Bootstrap: for any number of processes and disturbances    *)
(* and for every spec that an author may write.                            *)
(***************************************************************************)
EXTENDS Bootstrap, TLAPS

Given == Optional([Parts -> Optional(CPUMemSpec)])

----------------------------------------------------------------------------
(* What the defaults make of a spec.                                       *)

(* Or takes the value that is written, if there is one. *)
LEMMA OrValue ==
    ASSUME NEW S, NEW given \in Optional(S), NEW default \in S
    PROVE  /\ Or(given, default) \in S
           /\ given = Absent => Or(given, default) = default
           /\ \A v \in given : v = Or(given, default)
  <1>1. CASE given = Absent
    BY <1>1 DEF Or, Absent
  <1>2. CASE given # Absent
    <2>1. PICK v \in given : TRUE
      BY <1>2 DEF Absent
    <2>2. given \subseteq S /\ \A w, x \in given : w = x
      BY DEF Optional
    <2>3. Or(given, default) = CHOOSE w \in given : TRUE
      BY <1>2 DEF Or
    <2>4. (CHOOSE w \in given : TRUE) \in given
      BY <2>1
    <2>5. QED
      BY <1>2, <2>2, <2>3, <2>4
  <1>3. QED
    BY <1>1, <1>2

(* The tables of defaults have their types. *)
LEMMA DefaultTypes ==
    /\ Zero \in CPUMemSpec
    /\ PartDefault \in ResourceSpec
    /\ FieldDefault \in [ResourceFields -> ResourceSpec]
    /\ DefaultResources \in [ResourceFields -> ResourceSpec]
  <1>1. ASSUME NEW a \in Nat, NEW b \in Nat, NEW c \in Nat
        PROVE  CPUMem(a, b, c) \in CPUMemSpec
    BY DEF CPUMem, CPUMemSpec, Quantities
  <1>2. ASSUME NEW x \in CPUMemSpec, NEW y \in CPUMemSpec
        PROVE  [requests |-> x, limits |-> y] \in ResourceSpec
    BY DEF ResourceSpec, Parts
  <1>3. ASSUME NEW a \in Nat, NEW b \in Nat, NEW c \in Nat, NEW d \in Nat, NEW e \in Nat
        PROVE  Resources(a, b, c, d, e) \in ResourceSpec
    BY <1>1, <1>2 DEF Resources
  <1>4. Zero \in CPUMemSpec
    BY <1>1 DEF Zero
  <1>5. PartDefault \in ResourceSpec
    BY <1>3 DEF PartDefault
  <1>6. FieldDefault \in [ResourceFields -> ResourceSpec]
    BY <1>2, <1>3, <1>4 DEF FieldDefault, ResourceFields
  <1>7. DefaultResources \in [ResourceFields -> ResourceSpec]
    BY <1>3 DEF DefaultResources, ResourceFields
  <1>8. QED
    BY <1>4, <1>5, <1>6, <1>7

(***************************************************************************)
(* Filling in what the author left out (parts with default parts, the      *)
(* whole with a default whole) keeps what the author wrote.                *)
(***************************************************************************)
Filled(given, parts, whole) == Or({[p \in Parts |-> Or(r[p], parts[p])] : r \in given}, whole)

LEMMA FilledValue ==
    ASSUME NEW given \in Given, NEW parts \in ResourceSpec, NEW whole \in ResourceSpec
    PROVE  /\ Filled(given, parts, whole) \in ResourceSpec
           /\ given = Absent => Filled(given, parts, whole) = whole
           /\ \A r \in given : \A p \in Parts :
                /\ r[p] = Absent => Filled(given, parts, whole)[p] = parts[p]
                /\ \A v \in r[p] : Filled(given, parts, whole)[p] = v
  <1> DEFINE Full(r) == [p \in Parts |-> Or(r[p], parts[p])]
             full    == {Full(r) : r \in given}
  <1>1. ASSUME NEW r \in given
        PROVE  /\ Full(r) \in ResourceSpec
               /\ \A p \in Parts : /\ r[p] = Absent => Full(r)[p] = parts[p]
                                   /\ \A v \in r[p] : Full(r)[p] = v
    <2>1. r \in [Parts -> Optional(CPUMemSpec)]
      BY DEF Given, Optional
    <2>2. parts \in [Parts -> CPUMemSpec]
      BY DEF ResourceSpec
    <2>3. ASSUME NEW p \in Parts
          PROVE  /\ Or(r[p], parts[p]) \in CPUMemSpec
                 /\ r[p] = Absent => Or(r[p], parts[p]) = parts[p]
                 /\ \A v \in r[p] : v = Or(r[p], parts[p])
      <3>1. r[p] \in Optional(CPUMemSpec) /\ parts[p] \in CPUMemSpec
        BY <2>1, <2>2
      <3>2. QED
        BY <3>1, OrValue
    <2>4. QED
      BY <2>3 DEF ResourceSpec
  <1>2. full \in Optional(ResourceSpec)
    <2>1. full \subseteq ResourceSpec
      BY <1>1
    <2>2. \A r, s \in given : r = s
      BY DEF Given, Optional
    <2>3. \A v, w \in full : v = w
      BY <2>2
    <2>4. QED
      BY <2>1, <2>3 DEF Optional
  <1>3. Filled(given, parts, whole) = Or(full, whole)
    BY DEF Filled
  <1>4. /\ Or(full, whole) \in ResourceSpec
        /\ full = Absent => Or(full, whole) = whole
        /\ \A v \in full : v = Or(full, whole)
    BY <1>2, OrValue
  <1>5. given = Absent => full = Absent
    BY DEF Absent
  <1>6. ASSUME NEW r \in given
        PROVE  Or(full, whole) = Full(r)
    BY <1>4
  <1>7. QED
    BY <1>1, <1>3, <1>4, <1>5, <1>6

(* Unless the author named a quantity, each part is all default or all zero. *)
LEMMA NothingNamed ==
    ASSUME NEW given \in Given, NEW parts \in ResourceSpec, NEW whole \in ResourceSpec,
           \A p \in Parts, q \in Quantities : Named(given, p, q) = {}
    PROVE  \/ Filled(given, parts, whole) = whole
           \/ \A p \in Parts : \/ Filled(given, parts, whole)[p] = parts[p]
                               \/ \A q \in Quantities : Filled(given, parts, whole)[p][q] = 0
  <1>1. CASE given = Absent
    BY <1>1, FilledValue
  <1>2. CASE given # Absent
    <2>1. PICK r \in given : TRUE
      BY <1>2 DEF Absent
    <2>2. ASSUME NEW p \in Parts
          PROVE  \/ Filled(given, parts, whole)[p] = parts[p]
                 \/ \A q \in Quantities : Filled(given, parts, whole)[p][q] = 0
      <3>1. CASE r[p] = Absent
        BY <3>1, <2>1, FilledValue
      <3>2. CASE r[p] # Absent
        <4>1. PICK v \in r[p] : TRUE
          BY <3>2 DEF Absent
        <4>2. Filled(given, parts, whole)[p] = v
          BY <4>1, <2>1, FilledValue
        <4>3. v \in UNION { s[p] : s \in given }
          BY <4>1, <2>1
        <4>4. ASSUME NEW q \in Quantities
              PROVE  v[q] = 0
          <5>1. v[q] \in { w[q] : w \in UNION { s[p] : s \in given } }
            BY <4>3
          <5>2. QED
            BY <5>1 DEF Named
        <4>5. QED
          BY <4>2, <4>4
      <3>3. QED
        BY <3>1, <3>2
    <2>3. QED
      BY <2>2
  <1>3. QED
    BY <1>1, <1>2

(* What the author named is there after filling in. *)
LEMMA NamedIsKept ==
    ASSUME NEW given \in Given, NEW parts \in ResourceSpec, NEW whole \in ResourceSpec,
           NEW p \in Parts, NEW q \in Quantities
    PROVE  Named(given, p, q) \subseteq {Filled(given, parts, whole)[p][q]} \ {0}
  <1>1. ASSUME NEW x \in Named(given, p, q)
        PROVE  x = Filled(given, parts, whole)[p][q] /\ x # 0
    <2>1. x # 0
      BY DEF Named
    <2>2. PICK v \in UNION { r[p] : r \in given } : x = v[q]
      BY DEF Named
    <2>3. PICK r \in given : v \in r[p]
      BY <2>2
    <2>4. Filled(given, parts, whole)[p] = v
      BY <2>3, FilledValue
    <2>5. QED
      BY <2>1, <2>2, <2>4
  <1>2. QED
    BY <1>1

(* The webhook leaves what is not zero, and fills in the rest. *)
LEMMA AppliedValue ==
    ASSUME NEW r \in ResourceSpec, NEW d \in ResourceSpec
    PROVE  /\ applyDefaults(r, d) \in ResourceSpec
           /\ \A p \in Parts, q \in Quantities :
                applyDefaults(r, d)[p][q] = IF r[p][q] = 0 THEN d[p][q] ELSE r[p][q]
  <1>1. ASSUME NEW p \in Parts, NEW q \in Quantities
        PROVE  r[p][q] \in Nat /\ d[p][q] \in Nat
    BY DEF ResourceSpec, CPUMemSpec
  <1>2. QED
    BY <1>1 DEF applyDefaults, ResourceSpec, CPUMemSpec

(***************************************************************************)
(* Requests and limits of the three tables fit together, whichever part    *)
(* comes from which: a part that is zero is filled in by the webhook.      *)
(***************************************************************************)
LEMMA TablesFit ==
    ASSUME NEW f \in ResourceFields, NEW q \in {"cpu", "memory"}
    PROVE  LET d == DefaultResources[f]
               w == FieldDefault[f]
           IN  /\ 0 < d.requests[q] /\ d.requests[q] <= d.limits[q]
               /\ 0 < PartDefault.requests[q]
               /\ PartDefault.requests[q] <= PartDefault.limits[q]
               /\ PartDefault.requests[q] <= d.limits[q]
               /\ d.requests[q] <= PartDefault.limits[q]
               /\ \/ w.requests[q] = 0 /\ w.limits[q] = 0
                  \/ 0 < w.requests[q] /\ w.requests[q] <= w.limits[q]
  <1> USE DEF DefaultResources, FieldDefault, PartDefault, Resources, CPUMem, Zero
  <1>1. CASE f = "ovnCentral"
    BY <1>1
  <1>2. CASE f = "ovsOVN"
    BY <1>2
  <1>3. CASE f = "kubeOvnController"
    BY <1>3
  <1>4. CASE f = "kubeOvnCNI"
    BY <1>4
  <1>5. CASE f = "kubeOvnPinger"
    BY <1>5
  <1>6. CASE f = "kubeOvnMonitor"
    BY <1>6
  <1>7. QED
    BY <1>1, <1>2, <1>3, <1>4, <1>5, <1>6 DEF ResourceFields

(* What StoredIsDefaulted says of one field: given is written, r is stored. *)
Good(given, r) ==
    /\ \A p \in Parts, q \in Quantities : Named(given, p, q) \subseteq {r[p][q]}
    /\ (\A p \in Parts, q \in Quantities : Named(given, p, q) = {}) => Fits(r)

(* Either way in, a field comes out well formed and good. *)
LEMMA FieldIsGood ==
    ASSUME NEW f \in ResourceFields, NEW given \in Given, NEW parts, NEW whole,
           \/ parts = PartDefault /\ whole = FieldDefault[f]
           \/ parts = [p \in Parts |-> Zero] /\ whole = [p \in Parts |-> Zero]
    PROVE  LET r == applyDefaults(Filled(given, parts, whole), DefaultResources[f])
           IN  r \in ResourceSpec /\ Good(given, r)
  <1> DEFINE x == Filled(given, parts, whole)
             d == DefaultResources[f]
             r == applyDefaults(x, d)
  <1>1. parts \in ResourceSpec /\ whole \in ResourceSpec /\ d \in ResourceSpec
    BY DefaultTypes DEF ResourceSpec
  <1>2. x \in ResourceSpec
    BY <1>1, FilledValue
  <1>3. /\ r \in ResourceSpec
        /\ \A p \in Parts, q \in Quantities :
             r[p][q] = IF x[p][q] = 0 THEN d[p][q] ELSE x[p][q]
    <2> HIDE DEF x, d
    <2> QED
      BY <1>1, <1>2, AppliedValue
  <1>4. ASSUME NEW p \in Parts, NEW q \in Quantities
        PROVE  Named(given, p, q) \subseteq {r[p][q]}
    <2>1. Named(given, p, q) \subseteq {x[p][q]} \ {0}
      BY <1>1, NamedIsKept
    <2> HIDE DEF x, r
    <2> QED
      BY <2>1, <1>3
  <1>5. ASSUME \A p \in Parts, q \in Quantities : Named(given, p, q) = {}
        PROVE  Fits(r)
    <2>1. \/ x = whole
          \/ \A p \in Parts : \/ x[p] = parts[p]
                              \/ \A q \in Quantities : x[p][q] = 0
      BY <1>1, <1>5, NothingNamed
    <2>2. ASSUME NEW q \in {"cpu", "memory"}
          PROVE  /\ r["requests"][q] > 0 /\ r["limits"][q] > 0
                 /\ r["requests"][q] <= r["limits"][q]
      <3>1. q \in Quantities /\ "requests" \in Parts /\ "limits" \in Parts
        BY DEF Quantities, Parts
      <3>2. /\ r["requests"][q] = IF x["requests"][q] = 0 THEN d["requests"][q]
                                                          ELSE x["requests"][q]
            /\ r["limits"][q] = IF x["limits"][q] = 0 THEN d["limits"][q]
                                                      ELSE x["limits"][q]
        BY <1>3, <3>1
      <3>3. /\ x["requests"][q] \in Nat /\ x["limits"][q] \in Nat
            /\ d["requests"][q] \in Nat /\ d["limits"][q] \in Nat
            /\ PartDefault["requests"][q] \in Nat /\ PartDefault["limits"][q] \in Nat
        BY <1>1, <1>2, <3>1, DefaultTypes DEF ResourceSpec, CPUMemSpec
      <3>4. Zero[q] = 0
        BY DEF Zero, CPUMem
      <3>5. CASE parts = PartDefault /\ whole = FieldDefault[f]
        <4>1. \/ x = FieldDefault[f]
              \/ /\ x["requests"] = PartDefault["requests"] \/ x["requests"][q] = 0
                 /\ x["limits"] = PartDefault["limits"] \/ x["limits"][q] = 0
          BY <2>1, <3>1, <3>5
        <4> HIDE DEF x, r, d
        <4>2. /\ 0 < d["requests"][q] /\ d["requests"][q] <= d["limits"][q]
              /\ 0 < PartDefault["requests"][q]
              /\ PartDefault["requests"][q] <= PartDefault["limits"][q]
              /\ PartDefault["requests"][q] <= d["limits"][q]
              /\ d["requests"][q] <= PartDefault["limits"][q]
              /\ \/ FieldDefault[f]["requests"][q] = 0 /\ FieldDefault[f]["limits"][q] = 0
                 \/ /\ 0 < FieldDefault[f]["requests"][q]
                    /\ FieldDefault[f]["requests"][q] <= FieldDefault[f]["limits"][q]
          BY TablesFit DEF d
        <4>3. CASE x = FieldDefault[f]
          BY <3>2, <3>3, <4>2, <4>3
        <4>4. CASE /\ x["requests"] = PartDefault["requests"] \/ x["requests"][q] = 0
                   /\ x["limits"] = PartDefault["limits"] \/ x["limits"][q] = 0
          BY <3>2, <3>3, <4>2, <4>4
        <4>5. QED
          BY <4>1, <4>3, <4>4
      <3>6. CASE parts = [p \in Parts |-> Zero] /\ whole = [p \in Parts |-> Zero]
        <4>1. x["requests"][q] = 0 /\ x["limits"][q] = 0
          BY <2>1, <3>1, <3>4, <3>6
        <4>2. 0 < d["requests"][q] /\ d["requests"][q] <= d["limits"][q]
          BY TablesFit
        <4> HIDE DEF x, r, d
        <4>3. QED
          BY <3>2, <3>3, <4>1, <4>2
      <3>7. QED
        BY <3>5, <3>6
    <2> HIDE DEF r
    <2>3. QED
      BY <2>2 DEF Fits, Parts
  <1>6. QED
    BY <1>3, <1>4, <1>5 DEF Good

(* The webhook's answer to a spec that was written, or sent by a Go client. *)
LEMMA AdmittedIsGood ==
    ASSUME NEW given \in WrittenSpec,
           NEW spec \in Admission(AsWritten(given)) \cup Admission(AsMarshalled(given))
    PROVE  /\ spec \in [ResourceFields -> ResourceSpec]
           /\ \A f \in ResourceFields : Good(given[f], spec[f])
  <1>1. \A f \in ResourceFields : given[f] \in Given
    BY DEF WrittenSpec, Given
  <1>2. CASE spec \in Admission(AsWritten(given))
    <2>1. spec = [f \in ResourceFields |->
                    applyDefaults(Filled(given[f], PartDefault, FieldDefault[f]), DefaultResources[f])]
      BY <1>2 DEF Admission, AsWritten, ApplyConfigurationDefaults, Structural, Filled
    <2>2. QED
      BY <1>1, <2>1, FieldIsGood
  <1>3. CASE spec \in Admission(AsMarshalled(given))
    <2> DEFINE zeroes == [p \in Parts |-> Zero]
    <2>1. ASSUME NEW f \in ResourceFields
          PROVE  Marshalled(given[f]) = Filled(given[f], zeroes, zeroes)
      <3>1. \A p \in Parts : zeroes[p] = Zero
        OBVIOUS
      <3>2. \A r \in given[f] : [p \in Parts |-> Or(r[p], zeroes[p])] = [p \in Parts |-> Or(r[p], Zero)]
        BY <3>1
      <3>3. {[p \in Parts |-> Or(r[p], zeroes[p])] : r \in given[f]}
              = {[p \in Parts |-> Or(r[p], Zero)] : r \in given[f]}
        BY <3>2
      <3>4. QED
        BY <3>3, Zenon DEF Marshalled, Filled
    <2>2. spec = [f \in ResourceFields |->
                    applyDefaults(Filled(given[f], zeroes, zeroes), DefaultResources[f])]
      BY <1>3, <2>1 DEF Admission, AsMarshalled, ApplyConfigurationDefaults
    <2>3. QED
      BY <1>1, <2>2, FieldIsGood
  <1>4. QED
    BY <1>2, <1>3

----------------------------------------------------------------------------
(* Types.                                                                  *)

(* The backoff in numbers: each wait is as long as all before it and one. *)
Elapsed == [a \in 0..Steps |-> 2^a - 1]

LEMMA Backoff ==
    /\ Steps = 6
    /\ BackoffSteps = 6
    /\ Elapsed[0] = 0
    /\ Elapsed[5] = 31
    /\ \A a \in 0..6 : Elapsed[a] \in Nat
    /\ \A a \in 1..5 : /\ Delays[a] \in Nat
                       /\ Delays[a] <= 16
                       /\ Elapsed[a] = Elapsed[a - 1] + Delays[a]
    /\ 2^Steps = 64
  <1>1. /\ Elapsed[0] = 0 /\ Elapsed[1] = 1 /\ Elapsed[2] = 3 /\ Elapsed[3] = 7
        /\ Elapsed[4] = 15 /\ Elapsed[5] = 31 /\ Elapsed[6] = 63
    BY DEF Elapsed, Steps
  <1>2. Delays[1] = 1 /\ Delays[2] = 2 /\ Delays[3] = 4 /\ Delays[4] = 8 /\ Delays[5] = 16
    BY DEF Delays, Steps
  <1>3. \A a \in 1..5 : a = 1 \/ a = 2 \/ a = 3 \/ a = 4 \/ a = 5
    OBVIOUS
  <1>4. \A a \in 0..6 : a = 0 \/ a = 6 \/ a \in 1..5
    OBVIOUS
  <1>5. 2^Steps = 64 /\ Steps = 6 /\ BackoffSteps = 6
    BY DEF Steps, BackoffSteps
  <1>6. QED
    BY <1>1, <1>2, <1>3, <1>4, <1>5

(* A retry counts an attempt and waits, or is the last. *)
LEMMA RetryStep ==
    ASSUME NEW p \in Processes, proc \in [Processes -> Process],
           proc[p].attempt < Steps, Retry(p)
    PROVE  \E r \in Process :
             /\ proc' = [proc EXCEPT ![p] = r]
             /\ r.age = proc[p].age /\ r.serves = proc[p].serves
             /\ r.attempt = proc[p].attempt + 1
             /\ \/ r.pc = "done" /\ r.attempt = Steps
                \/ /\ r.pc = proc[p].pc /\ r.attempt < Steps
                   /\ r.wait \in Nat /\ r.wait >= Delays[r.attempt]
  <1> DEFINE a == proc[p].attempt + 1
  <1>1. proc[p] \in Process
    OBVIOUS
  <1>2. a \in 1..6
    BY <1>1, Backoff DEF Process
  <1>3. CASE a = BackoffSteps /\ Set(p, [proc[p] EXCEPT !.pc = "done", !.attempt = a])
    <2> DEFINE r == [proc[p] EXCEPT !.pc = "done", !.attempt = a]
    <2>1. r \in Process
      <3>1. a \in 0..Steps
        BY <1>2, Backoff
      <3> HIDE DEF a
      <3>2. QED
        BY <1>1, <3>1 DEF Process
    <2>2. /\ r.age = proc[p].age /\ r.serves = proc[p].serves
          /\ r.attempt = a /\ r.pc = "done"
      BY <1>1 DEF Process
    <2>3. QED
      BY <1>3, <2>1, <2>2, Backoff DEF Set
  <1>4. CASE /\ a < BackoffSteps
             /\ \E w \in Delays[a]..(Delays[a] + Delays[a] \div 10) :
                  Set(p, [proc[p] EXCEPT !.attempt = a, !.wait = w])
    <2>1. PICK w \in Delays[a]..(Delays[a] + Delays[a] \div 10) :
                  Set(p, [proc[p] EXCEPT !.attempt = a, !.wait = w])
      BY <1>4
    <2>2. a \in 1..5 /\ a < Steps
      BY <1>2, <1>4, Backoff
    <2>3. w \in 0..64 /\ w >= Delays[a]
      BY <2>2, Backoff
    <2> DEFINE r == [proc[p] EXCEPT !.attempt = a, !.wait = w]
    <2>4. r \in Process
      <3>1. a \in 0..Steps /\ w \in 0..(2^Steps)
        BY <1>2, <2>3, Backoff
      <3> HIDE DEF a
      <3>2. QED
        BY <1>1, <3>1 DEF Process
    <2>5. /\ r.age = proc[p].age /\ r.serves = proc[p].serves
          /\ r.attempt = a /\ r.pc = proc[p].pc /\ r.wait = w
      BY <1>1 DEF Process
    <2>6. proc' = [proc EXCEPT ![p] = r]
      BY <2>1 DEF Set
    <2>7. w \in Nat
      BY <2>3
    <2> HIDE DEF r
    <2>8. /\ r.attempt = proc[p].attempt + 1 /\ r.pc = proc[p].pc /\ r.attempt < Steps
          /\ r.wait \in Nat /\ r.wait >= Delays[r.attempt]
      BY <2>2, <2>3, <2>5, <2>7
    <2>9. QED
      BY <2>4, <2>5, <2>6, <2>8
  <1>5. QED
    BY <1>3, <1>4 DEF Retry

(* Everything that is stored is good. *)
StoredOK ==
    config = NoConfig \/ /\ config \in Authored
                         /\ \A f \in ResourceFields : Good(config.given[f], config.spec[f])

TypeInv == TypeOK /\ StoredOK

(* A create or an update stores what the webhook made of the spec. *)
LEMMA StoreStep ==
    ASSUME NEW author \in Author, NEW given \in {BootstrapSpec} \cup UserSpecs,
           NEW spec \in Admission(AsWritten(given)) \cup Admission(AsMarshalled(given)),
           Store(author, given, spec)
    PROVE  StoredOK' /\ existed' = TRUE
  <1>1. given \in WrittenSpec
    BY SpecsAssumption
  <1>2. /\ spec \in [ResourceFields -> ResourceSpec]
        /\ \A f \in ResourceFields : Good(given[f], spec[f])
    BY <1>1, AdmittedIsGood
  <1>3. config' = [author |-> author, given |-> given, spec |-> spec] /\ existed' = TRUE
    BY DEF Store
  <1>4. config'.given = given /\ config'.spec = spec /\ config' \in Authored
    BY <1>2, <1>3 DEF Authored
  <1>5. QED
    BY <1>2, <1>3, <1>4 DEF StoredOK

(* The initial state. *)
LEMMA TypeInit == Init => TypeInv
  <1>1. Down \in Process
    <2>1. 0 \in 0..WebhookDelay /\ 0 \in 0..Steps /\ 0 \in 0..(2^Steps)
      BY BoundsAssumption, Backoff
    <2>2. QED
      BY <2>1 DEF Down, Process
  <1>2. QED
    BY <1>1, BoundsAssumption DEF Init, TypeInv, TypeOK, StoredOK

(* The bootstrapper's steps. *)
LEMMA AdvanceTypes ==
    ASSUME TypeInv, NEW p \in Processes, Advance(p),
           At(p, "create") => proc[p].attempt < Steps
    PROVE  TypeInv'
  <1> USE DEF At
  <1>1. proc \in [Processes -> Process] /\ proc[p] \in Process
    BY DEF TypeInv, TypeOK
  <1>2. CASE Start(p)
    <2>1. [proc[p] EXCEPT !.pc = "lookup", !.cached = Exists] \in Process
      BY <1>1 DEF Process, Exists
    <2>2. proc' \in [Processes -> Process]
      BY <1>1, <1>2, <2>1 DEF Start, Set
    <2>3. QED
      BY <1>2, <2>2 DEF Start, TypeInv, TypeOK, StoredOK
  <1>3. CASE lookupConfiguration(p)
    <2>1. proc' \in [Processes -> Process]
      BY <1>1, <1>3 DEF lookupConfiguration, Set, Process
    <2>2. QED
      BY <1>3, <2>1 DEF lookupConfiguration, TypeInv, TypeOK, StoredOK
  <1>4. CASE loadConfigMap(p)
    <2>1. proc' \in [Processes -> Process]
      BY <1>1, <1>4 DEF loadConfigMap, Set, Process
    <2>2. QED
      BY <1>4, <2>1 DEF loadConfigMap, TypeInv, TypeOK, StoredOK
  <1>5. CASE createConfigurationWithRetry(p)
    <2> DEFINE admitted == Admission(AsMarshalled(BootstrapSpec))
    <2>1. UNCHANGED <<leader, configMap, missed, budget>>
      BY <1>5 DEF createConfigurationWithRetry
    <2>2. CASE Retry(p) /\ UNCHANGED <<config, existed>>
      <3>1. proc' \in [Processes -> Process]
        BY <1>1, <1>5, <2>2, RetryStep DEF createConfigurationWithRetry
      <3>2. QED
        BY <2>1, <2>2, <3>1 DEF TypeInv, TypeOK, StoredOK
    <2>3. CASE Set(p, [proc[p] EXCEPT !.pc = "done"]) /\ UNCHANGED <<config, existed>>
      <3>1. proc' \in [Processes -> Process]
        BY <1>1, <2>3 DEF Set, Process
      <3>2. QED
        BY <2>1, <2>3, <3>1 DEF TypeInv, TypeOK, StoredOK
    <2>4. CASE /\ \E s \in admitted : Store("bootstrap", BootstrapSpec, s)
               /\ Set(p, [proc[p] EXCEPT !.pc = "done"])
      <3>1. proc' \in [Processes -> Process]
        BY <1>1, <2>4 DEF Set, Process
      <3>2. StoredOK' /\ existed' = TRUE
        BY <2>4, StoreStep DEF Author
      <3>3. QED
        BY <2>1, <3>1, <3>2 DEF TypeInv, TypeOK, StoredOK
    <2>5. QED
      BY <1>5, <2>2, <2>3, <2>4 DEF createConfigurationWithRetry
  <1>6. QED
    BY <1>2, <1>3, <1>4, <1>5 DEF Advance

(* The steps of the processes and of time. *)
LEMMA ProcessTypes ==
    ASSUME TypeInv, NEW p \in Processes,
           At(p, "create") => proc[p].attempt < Steps,
           Launch(p) \/ Serve(p) \/ Acquire(p) \/ Deliver(p) \/ LookupFails(p)
             \/ CreateFails(p) \/ Crash(p)
    PROVE  TypeInv'
  <1> USE DEF At
  <1>1. proc \in [Processes -> Process] /\ proc[p] \in Process
    BY DEF TypeInv, TypeOK
  <1>2. 0 \in 0..WebhookDelay /\ 0 \in 0..Steps /\ 0 \in 0..(2^Steps)
    BY BoundsAssumption, Backoff
  <1>3. Down \in Process
    BY <1>2 DEF Down, Process
  <1>4. CASE Launch(p)
    <2>1. proc' \in [Processes -> Process]
      BY <1>1, <1>3, <1>4 DEF Launch, Set, Process
    <2>2. QED
      BY <1>4, <2>1 DEF Launch, TypeInv, TypeOK, StoredOK
  <1>5. CASE Serve(p)
    <2>1. proc' \in [Processes -> Process]
      BY <1>1, <1>2, <1>5 DEF Serve, Set, Process
    <2>2. QED
      BY <1>5, <2>1 DEF Serve, TypeInv, TypeOK, StoredOK
  <1>6. CASE Acquire(p)
    BY <1>6 DEF Acquire, TypeInv, TypeOK, StoredOK
  <1>7. CASE Deliver(p)
    <2>1. [proc[p] EXCEPT !.cached = Exists] \in Process
      BY <1>1 DEF Process, Exists
    <2>2. proc' \in [Processes -> Process]
      BY <1>1, <1>7, <2>1 DEF Deliver, Set
    <2>3. QED
      BY <1>7, <2>2 DEF Deliver, TypeInv, TypeOK, StoredOK
  <1>8. ASSUME Disturb
        PROVE  budget' \in Nat
    BY <1>8 DEF Disturb, TypeInv, TypeOK
  <1>9. CASE LookupFails(p)
    <2>1. proc' \in [Processes -> Process]
      BY <1>1, <1>9 DEF LookupFails, Set, Process
    <2>2. budget' \in Nat
      BY <1>8, <1>9 DEF LookupFails
    <2>3. QED
      BY <1>9, <2>1, <2>2 DEF LookupFails, TypeInv, TypeOK, StoredOK
  <1>10. CASE CreateFails(p)
    <2>1. proc' \in [Processes -> Process]
      BY <1>1, <1>10, RetryStep DEF CreateFails
    <2>2. budget' \in Nat
      BY <1>8, <1>10 DEF CreateFails, TypeInv, TypeOK
    <2>3. missed' \in BOOLEAN
      BY <1>10 DEF CreateFails, TypeInv, TypeOK
    <2>4. QED
      BY <1>10, <2>1, <2>2, <2>3 DEF CreateFails, TypeInv, TypeOK, StoredOK
  <1>11. CASE Crash(p)
    <2>1. proc' \in [Processes -> Process]
      BY <1>1, <1>3, <1>11 DEF Crash, Set
    <2>2. budget' \in Nat
      BY <1>8, <1>11 DEF Crash
    <2>3. QED
      BY <1>11, <2>1, <2>2 DEF Crash, TypeInv, TypeOK, StoredOK
  <1>12. QED
    BY <1>4, <1>5, <1>6, <1>7, <1>9, <1>10, <1>11

(* Where a process stands after a second. *)
Aged(p) ==
    [proc[p] EXCEPT !.age  = IF proc[p].serves THEN 0 ELSE proc[p].age + 1,
                    !.wait = IF proc[p].wait > 0 THEN proc[p].wait - 1 ELSE 0]

LEMMA AgedValue ==
    ASSUME TypeInv, Tick, NEW p \in Processes
    PROVE  /\ At(p, "down") => proc'[p] = proc[p]
           /\ ~At(p, "down") =>
                /\ proc'[p] = Aged(p)
                /\ proc'[p] \in Process
                /\ proc'[p].pc = proc[p].pc /\ proc'[p].serves = proc[p].serves
                /\ proc'[p].attempt = proc[p].attempt
                /\ ~proc[p].serves => proc'[p].age = proc[p].age + 1
                /\ proc'[p].wait + 1 >= proc[p].wait
  <1>1. proc[p] \in Process
    BY DEF TypeInv, TypeOK
  <1>2. At(p, "down") => proc'[p] = proc[p]
    BY DEF Tick
  <1>3. ASSUME ~At(p, "down")
        PROVE  /\ proc'[p] = Aged(p)
               /\ proc'[p] \in Process
               /\ proc'[p].pc = proc[p].pc /\ proc'[p].serves = proc[p].serves
               /\ proc'[p].attempt = proc[p].attempt
               /\ ~proc[p].serves => proc'[p].age = proc[p].age + 1
               /\ proc'[p].wait + 1 >= proc[p].wait
    <2> DEFINE age  == IF proc[p].serves THEN 0 ELSE proc[p].age + 1
               wait == IF proc[p].wait > 0 THEN proc[p].wait - 1 ELSE 0
    <2>1. proc'[p] = [proc[p] EXCEPT !.age = age, !.wait = wait]
      BY <1>3 DEF Tick
    <2>2. ~proc[p].serves => proc[p].age # WebhookDelay
      BY <1>3 DEF Tick, Busy
    <2>3. proc[p].age \in 0..WebhookDelay /\ proc[p].wait \in 0..(2^Steps)
      BY <1>1 DEF Process
    <2>4. age \in 0..WebhookDelay
      BY <2>2, <2>3, BoundsAssumption
    <2>5. wait \in 0..(2^Steps) /\ wait + 1 >= proc[p].wait
      BY <2>3, Backoff
    <2>6. ~proc[p].serves => age = proc[p].age + 1
      OBVIOUS
    <2> HIDE DEF age, wait
    <2>7. proc'[p] \in Process
      BY <1>1, <2>1, <2>4, <2>5 DEF Process
    <2>8. /\ proc'[p].pc = proc[p].pc /\ proc'[p].serves = proc[p].serves
          /\ proc'[p].attempt = proc[p].attempt
          /\ proc'[p].age = age /\ proc'[p].wait = wait
      BY <1>1, <2>1 DEF Process
    <2>9. proc'[p] = Aged(p)
      BY <2>1 DEF Aged, age, wait
    <2>10. QED
      BY <2>5, <2>6, <2>7, <2>8, <2>9
  <1>4. QED
    BY <1>2, <1>3

LEMMA TickTypes ==
    ASSUME TypeInv, Tick
    PROVE  TypeInv'
  <1>1. \A p \in Processes : proc'[p] \in Process
    BY AgedValue DEF TypeInv, TypeOK
  <1>2. proc' \in [Processes -> Process]
    BY <1>1 DEF Tick
  <1>3. QED
    BY <1>2 DEF Tick, TypeInv, TypeOK, StoredOK

(* What users do. *)
LEMMA UserTypes ==
    ASSUME TypeInv,
           (\E given \in UserSpecs : UserCreates(given) \/ UserEdits(given)) \/ UserDeletes
    PROVE  TypeInv' /\ UNCHANGED <<proc, missed>>
  <1>1. UNCHANGED <<proc, leader, configMap, missed>>
    BY DEF UserCreates, UserEdits, UserDeletes
  <1>2. budget' \in Nat
    BY DEF UserCreates, UserEdits, UserDeletes, Disturb, TypeInv, TypeOK
  <1>3. StoredOK' /\ existed' \in BOOLEAN
    <2>1. CASE UserDeletes
      BY <2>1 DEF UserDeletes, StoredOK, TypeInv, TypeOK
    <2>2. ASSUME NEW given \in UserSpecs, UserCreates(given) \/ UserEdits(given)
          PROVE  StoredOK' /\ existed' \in BOOLEAN
      <3>1. PICK s \in Admission(AsWritten(given)) : Store("user", given, s)
        BY <2>2 DEF UserCreates, UserEdits
      <3>2. QED
        BY <3>1, StoreStep DEF Author
    <2>3. QED
      BY <2>1, <2>2
  <1>4. QED
    BY <1>1, <1>2, <1>3 DEF TypeInv, TypeOK, StoredOK

----------------------------------------------------------------------------
(***************************************************************************)
(* Attempts.  While the webhook of a process that creates is late, the     *)
(* time it has been starting and the rest of the wait outweigh the waits   *)
(* of the attempts so far.  With fewer than 31 seconds for the webhook it  *)
(* serves at the sixth attempt, and the create is answered.                *)
(***************************************************************************)
AttemptsOf(r) ==
    /\ r.pc \in {"down", "waiting", "lookup", "map"} => r.attempt = 0 /\ r.wait = 0
    /\ r.pc = "create" => r.attempt < Steps
    /\ r.pc = "create" /\ ~r.serves => r.age + r.wait >= Elapsed[r.attempt]

Attempts == \A p \in Processes : AttemptsOf(proc[p])

IInv == TypeInv /\ Attempts

(* One process changes to r. *)
LEMMA OneProcess ==
    ASSUME IInv, NEW p \in Processes, NEW r, proc' = [proc EXCEPT ![p] = r], AttemptsOf(r)
    PROVE  /\ Attempts'
           /\ RetriesSuffice /\ (missed => missed')
                /\ (r.attempt = BackoffSteps => missed' \/ r.attempt = proc[p].attempt)
                => RetriesSuffice'
  <1>1. proc \in [Processes -> Process]
    BY DEF IInv, TypeInv, TypeOK
  <1>2. proc'[p] = r /\ \A o \in Processes \ {p} : proc'[o] = proc[o]
    BY <1>1
  <1>3. Attempts'
    BY <1>2 DEF IInv, Attempts
  <1>4. ASSUME RetriesSuffice, missed => missed',
               r.attempt = BackoffSteps => missed' \/ r.attempt = proc[p].attempt
        PROVE  RetriesSuffice'
    BY <1>2, <1>4 DEF RetriesSuffice
  <1>5. QED
    BY <1>3, <1>4

(* A retry keeps the count, and is the last only when a request failed. *)
LEMMA RetryAttempts ==
    ASSUME IInv, NEW p \in Processes, At(p, "create"), proc[p].wait = 0, Retry(p)
    PROVE  /\ Attempts'
           /\ RetriesSuffice /\ (missed => missed')
                /\ (proc[p].attempt + 1 = BackoffSteps => missed')
                => RetriesSuffice'
  <1>1. proc \in [Processes -> Process] /\ proc[p] \in Process /\ AttemptsOf(proc[p])
    BY DEF IInv, TypeInv, TypeOK, Attempts
  <1>2. proc[p].pc = "create" /\ proc[p].attempt < Steps
    BY <1>1 DEF At, AttemptsOf
  <1>3. PICK r \in Process :
             /\ proc' = [proc EXCEPT ![p] = r]
             /\ r.age = proc[p].age /\ r.serves = proc[p].serves
             /\ r.attempt = proc[p].attempt + 1
             /\ \/ r.pc = "done" /\ r.attempt = Steps
                \/ /\ r.pc = proc[p].pc /\ r.attempt < Steps
                   /\ r.wait \in Nat /\ r.wait >= Delays[r.attempt]
    BY <1>1, <1>2, RetryStep
  <1>4. AttemptsOf(r)
    <2>1. CASE r.pc = "done"
      BY <2>1 DEF AttemptsOf
    <2>2. CASE r.pc = "create" /\ r.attempt < Steps /\ r.wait \in Nat /\ r.wait >= Delays[r.attempt]
      <3>1. ASSUME ~r.serves
            PROVE  r.age + r.wait >= Elapsed[r.attempt]
        <4>1. ~proc[p].serves
          BY <3>1, <1>3
        <4>2. proc[p].age + proc[p].wait >= Elapsed[proc[p].attempt]
          BY <1>1, <1>2, <4>1 DEF AttemptsOf
        <4>3. proc[p].age \in Nat /\ proc[p].attempt \in 0..5 /\ r.attempt \in 1..5
          <5>1. proc[p].age \in 0..WebhookDelay /\ proc[p].attempt \in 0..Steps
            BY <1>1 DEF Process
          <5>2. QED
            BY <5>1, <1>2, <1>3, <2>2, Backoff
        <4>4. r.attempt - 1 = proc[p].attempt
          BY <1>3, <4>3
        <4>5. /\ Elapsed[r.attempt] = Elapsed[proc[p].attempt] + Delays[r.attempt]
              /\ Delays[r.attempt] \in Nat /\ Elapsed[proc[p].attempt] \in Nat
          BY <4>3, <4>4, Backoff
        <4>6. QED
          BY <1>3, <2>2, <4>2, <4>3, <4>5
      <3>2. QED
        BY <2>2, <3>1 DEF AttemptsOf
    <2>3. QED
      BY <1>2, <1>3, <2>1, <2>2
  <1>5. QED
    BY <1>3, <1>4, OneProcess

(***************************************************************************)
(* A create that no webhook answers is not the sixth: the process's own    *)
(* would have been starting for 31 seconds.                                *)
(***************************************************************************)
LEMMA RefusedEarly ==
    ASSUME IInv, WebhookDelay < 31, NEW p \in Processes, At(p, "create"),
           proc[p].wait = 0, ~proc[p].serves
    PROVE  proc[p].attempt + 1 # BackoffSteps
  <1>1. proc[p] \in Process /\ AttemptsOf(proc[p])
    BY DEF IInv, TypeInv, TypeOK, Attempts
  <1>2. proc[p].age + proc[p].wait >= Elapsed[proc[p].attempt]
    BY <1>1 DEF At, AttemptsOf
  <1>3. proc[p].age \in 0..WebhookDelay /\ proc[p].attempt \in 0..Steps
    BY <1>1 DEF Process
  <1>4. SUFFICES ASSUME proc[p].attempt + 1 = BackoffSteps
                 PROVE  FALSE
    OBVIOUS
  <1>5. proc[p].attempt = 5
    BY <1>3, <1>4, Backoff
  <1>6. Elapsed[proc[p].attempt] = 31
    BY <1>5, Backoff
  <1>7. QED
    BY <1>2, <1>3, <1>6, BoundsAssumption

(* The bootstrapper's steps keep the count. *)
LEMMA AdvanceAttempts ==
    ASSUME IInv, NEW p \in Processes, Advance(p)
    PROVE  Attempts' /\ (WebhookDelay < 31 /\ RetriesSuffice => RetriesSuffice')
  <1> USE DEF At
  <1>1. proc \in [Processes -> Process] /\ proc[p] \in Process /\ AttemptsOf(proc[p])
    BY DEF IInv, TypeInv, TypeOK, Attempts
  <1>2. Elapsed[0] = 0 /\ Steps = 6 /\ BackoffSteps = 6
    BY Backoff
  <1>3. proc[p].age \in Nat
    BY <1>1 DEF Process
  <1>4. ASSUME NEW r, proc' = [proc EXCEPT ![p] = r], UNCHANGED missed,
               r.attempt = proc[p].attempt, AttemptsOf(r)
        PROVE  Attempts' /\ (RetriesSuffice => RetriesSuffice')
    BY <1>4, OneProcess
  <1>5. CASE Start(p)
    <2> DEFINE r == [proc[p] EXCEPT !.pc = "lookup", !.cached = Exists]
    <2>1. r.pc = "lookup" /\ r.attempt = proc[p].attempt /\ r.wait = proc[p].wait
      BY <1>1 DEF Process
    <2>2. AttemptsOf(r)
      BY <1>1, <1>5, <2>1 DEF AttemptsOf, Start
    <2>3. proc' = [proc EXCEPT ![p] = r] /\ UNCHANGED missed
      BY <1>5 DEF Start, Set
    <2> HIDE DEF r
    <2>4. QED
      BY <1>4, <2>1, <2>2, <2>3
  <1>6. CASE lookupConfiguration(p)
    <2> DEFINE r == [proc[p] EXCEPT !.pc = IF proc[p].cached THEN "done" ELSE "map"]
    <2>1. r.pc \in {"done", "map"} /\ r.attempt = proc[p].attempt /\ r.wait = proc[p].wait
      BY <1>1 DEF Process
    <2>2. AttemptsOf(r)
      BY <1>1, <1>6, <2>1 DEF AttemptsOf, lookupConfiguration
    <2>3. proc' = [proc EXCEPT ![p] = r] /\ UNCHANGED missed
      BY <1>6 DEF lookupConfiguration, Set
    <2> HIDE DEF r
    <2>4. QED
      BY <1>4, <2>1, <2>2, <2>3
  <1>7. CASE loadConfigMap(p)
    <2> DEFINE r == [proc[p] EXCEPT !.pc = IF configMap = "valid" THEN "create" ELSE "done"]
    <2>1. /\ r.pc \in {"done", "create"} /\ r.attempt = proc[p].attempt
          /\ r.wait = proc[p].wait /\ r.age = proc[p].age
      BY <1>1 DEF Process
    <2>2. r.attempt = 0 /\ r.wait = 0
      BY <1>1, <1>7, <2>1 DEF AttemptsOf, loadConfigMap
    <2>3. r.age + r.wait >= 0
      BY <1>3, <2>1, <2>2
    <2>4. AttemptsOf(r)
      <3> HIDE DEF r
      <3> QED
        BY <1>2, <2>1, <2>2, <2>3 DEF AttemptsOf
    <2>5. proc' = [proc EXCEPT ![p] = r] /\ UNCHANGED missed
      BY <1>7 DEF loadConfigMap, Set
    <2> HIDE DEF r
    <2>6. QED
      BY <1>4, <2>1, <2>4, <2>5
  <1>8. CASE createConfigurationWithRetry(p)
    <2> DEFINE admitted == Admission(AsMarshalled(BootstrapSpec))
    <2>1. At(p, "create") /\ proc[p].wait = 0 /\ UNCHANGED missed
      BY <1>8 DEF createConfigurationWithRetry
    <2>2. CASE admitted = {} /\ Retry(p)
      <3>1. ~proc[p].serves
        BY <2>2 DEF Admission, Serving
      <3>2. WebhookDelay < 31 => proc[p].attempt + 1 # BackoffSteps
        BY <2>1, <3>1, RefusedEarly
      <3>3. QED
        BY <2>1, <2>2, <3>2, RetryAttempts
    <2>3. CASE Set(p, [proc[p] EXCEPT !.pc = "done"])
      <3> DEFINE r == [proc[p] EXCEPT !.pc = "done"]
      <3>1. r.pc = "done" /\ r.attempt = proc[p].attempt
        BY <1>1 DEF Process
      <3>2. AttemptsOf(r)
        BY <3>1 DEF AttemptsOf
      <3>3. proc' = [proc EXCEPT ![p] = r]
        BY <2>3 DEF Set
      <3> HIDE DEF r
      <3>4. QED
        BY <1>4, <2>1, <3>1, <3>2, <3>3
    <2>4. QED
      BY <1>8, <2>2, <2>3 DEF createConfigurationWithRetry
  <1>9. QED
    BY <1>5, <1>6, <1>7, <1>8 DEF Advance

(* So do the steps of the processes. *)
LEMMA ProcessAttempts ==
    ASSUME IInv, NEW p \in Processes,
           Launch(p) \/ Serve(p) \/ Acquire(p) \/ Deliver(p) \/ LookupFails(p)
             \/ CreateFails(p) \/ Crash(p)
    PROVE  Attempts' /\ (RetriesSuffice => RetriesSuffice')
  <1> USE DEF At
  <1>1. proc \in [Processes -> Process] /\ proc[p] \in Process /\ AttemptsOf(proc[p])
    BY DEF IInv, TypeInv, TypeOK, Attempts
  <1>2. missed => missed'
    BY DEF Launch, Serve, Acquire, Deliver, LookupFails, CreateFails, Crash
  <1>3. ASSUME NEW r, proc' = [proc EXCEPT ![p] = r], AttemptsOf(r),
               r.attempt = proc[p].attempt \/ r.attempt = 0
        PROVE  Attempts' /\ (RetriesSuffice => RetriesSuffice')
    <2>1. 0 # BackoffSteps
      BY Backoff
    <2>2. QED
      BY <1>2, <1>3, <2>1, OneProcess
  <1>5. CASE Launch(p)
    <2> DEFINE r == [Down EXCEPT !.pc = "waiting"]
    <2>1. proc' = [proc EXCEPT ![p] = r] /\ r.attempt = 0 /\ AttemptsOf(r)
      BY <1>5 DEF Launch, Set, Down, AttemptsOf
    <2> HIDE DEF r
    <2>2. QED
      BY <1>3, <2>1
  <1>6. CASE Serve(p)
    <2> DEFINE r == [proc[p] EXCEPT !.serves = TRUE, !.age = 0]
    <2>1. /\ r.pc = proc[p].pc /\ r.attempt = proc[p].attempt /\ r.wait = proc[p].wait
          /\ r.serves = TRUE
      BY <1>1 DEF Process
    <2>2. AttemptsOf(r)
      BY <1>1, <2>1 DEF AttemptsOf
    <2>3. proc' = [proc EXCEPT ![p] = r]
      BY <1>6 DEF Serve, Set
    <2> HIDE DEF r
    <2>4. QED
      BY <1>3, <2>1, <2>2, <2>3
  <1>7. CASE Acquire(p)
    BY <1>7 DEF Acquire, IInv, Attempts, RetriesSuffice
  <1>8. CASE Deliver(p)
    <2> DEFINE r == [proc[p] EXCEPT !.cached = Exists]
    <2>1. /\ r.pc = proc[p].pc /\ r.attempt = proc[p].attempt /\ r.wait = proc[p].wait
          /\ r.serves = proc[p].serves /\ r.age = proc[p].age
      BY <1>1 DEF Process
    <2>2. AttemptsOf(r)
      BY <1>1, <2>1 DEF AttemptsOf
    <2>3. proc' = [proc EXCEPT ![p] = r]
      BY <1>8 DEF Deliver, Set
    <2> HIDE DEF r
    <2>4. QED
      BY <1>3, <2>1, <2>2, <2>3
  <1>9. CASE LookupFails(p)
    <2> DEFINE r == [proc[p] EXCEPT !.pc = "done"]
    <2>1. r.pc = "done" /\ r.attempt = proc[p].attempt
      BY <1>1 DEF Process
    <2>2. AttemptsOf(r)
      BY <2>1 DEF AttemptsOf
    <2>3. proc' = [proc EXCEPT ![p] = r]
      BY <1>9 DEF LookupFails, Set
    <2> HIDE DEF r
    <2>4. QED
      BY <1>3, <2>1, <2>2, <2>3
  <1>10. CASE CreateFails(p)
    <2>1. proc[p].attempt + 1 = BackoffSteps => missed'
      BY <1>10 DEF CreateFails
    <2>2. QED
      BY <1>2, <1>10, <2>1, RetryAttempts DEF CreateFails
  <1>11. CASE Crash(p)
    <2>1. proc' = [proc EXCEPT ![p] = Down] /\ Down.attempt = 0 /\ AttemptsOf(Down)
      BY <1>11 DEF Crash, Set, Down, AttemptsOf
    <2>2. QED
      BY <1>3, <2>1
  <1>12. QED
    BY <1>5, <1>6, <1>7, <1>8, <1>9, <1>10, <1>11

(* A second less to wait is a second more that the webhook has had. *)
LEMMA TickAttempts ==
    ASSUME IInv, Tick
    PROVE  Attempts' /\ (RetriesSuffice => RetriesSuffice')
  <1>1. ASSUME NEW p \in Processes
        PROVE  AttemptsOf(proc'[p]) /\ proc'[p].attempt = proc[p].attempt
    <2>1. proc[p] \in Process /\ AttemptsOf(proc[p])
      BY DEF IInv, TypeInv, TypeOK, Attempts
    <2>2. CASE At(p, "down")
      BY <2>1, <2>2, AgedValue DEF IInv
    <2>3. CASE ~At(p, "down")
      <3>1. /\ proc'[p] = Aged(p)
            /\ proc'[p] \in Process
            /\ proc'[p].pc = proc[p].pc /\ proc'[p].serves = proc[p].serves
            /\ proc'[p].attempt = proc[p].attempt
            /\ ~proc[p].serves => proc'[p].age = proc[p].age + 1
            /\ proc'[p].wait + 1 >= proc[p].wait
        BY <2>3, AgedValue DEF IInv
      <3>2. /\ proc[p].age \in 0..WebhookDelay /\ proc[p].wait \in 0..(2^Steps)
            /\ proc'[p].wait \in 0..(2^Steps) /\ proc[p].attempt \in 0..Steps
        BY <2>1, <3>1 DEF Process
      <3>3. /\ proc[p].age \in Nat /\ proc[p].wait \in Nat /\ proc'[p].wait \in Nat
            /\ Elapsed[proc[p].attempt] \in Nat
        BY <3>2, Backoff
      <3>4. proc[p].wait = 0 => proc'[p].wait = 0
        <4>1. proc[p].wait = 0 => Aged(p).wait = 0
          BY <2>1 DEF Aged, Process
        <4>2. QED
          BY <3>1, <4>1
      <3>5. ASSUME proc[p].pc = "create", ~proc[p].serves
            PROVE  proc'[p].age + proc'[p].wait >= Elapsed[proc[p].attempt]
        <4>1. proc[p].age + proc[p].wait >= Elapsed[proc[p].attempt]
          BY <2>1, <3>5 DEF AttemptsOf
        <4>2. QED
          BY <3>1, <3>3, <3>5, <4>1
      <3>6. QED
        BY <2>1, <3>1, <3>4, <3>5 DEF AttemptsOf
    <2>4. QED
      BY <2>2, <2>3
  <1>2. QED
    BY <1>1 DEF Tick, Attempts, RetriesSuffice

----------------------------------------------------------------------------
(* The inductive invariant. *)
LEMMA InvInit == Init => IInv /\ RetriesSuffice
  <1> SUFFICES ASSUME Init
               PROVE  IInv /\ RetriesSuffice
    OBVIOUS
  <1>1. \A p \in Processes : AttemptsOf(proc[p]) /\ proc[p].attempt = 0
    BY DEF Init, AttemptsOf, Down
  <1>2. 0 # BackoffSteps
    BY Backoff
  <1>3. QED
    BY <1>1, <1>2, TypeInit DEF IInv, Attempts, RetriesSuffice

LEMMA InvStep ==
    ASSUME IInv, [Next]_vars
    PROVE  IInv' /\ (WebhookDelay < 31 /\ RetriesSuffice => RetriesSuffice')
  <1>1. \A p \in Processes : At(p, "create") => proc[p].attempt < Steps
    BY DEF IInv, Attempts, AttemptsOf, At
  <1>2. ASSUME NEW p \in Processes, Advance(p)
        PROVE  IInv' /\ (WebhookDelay < 31 /\ RetriesSuffice => RetriesSuffice')
    BY <1>1, <1>2, AdvanceTypes, AdvanceAttempts DEF IInv
  <1>3. ASSUME NEW p \in Processes,
               Launch(p) \/ Serve(p) \/ Acquire(p) \/ Deliver(p) \/ LookupFails(p)
                 \/ CreateFails(p) \/ Crash(p)
        PROVE  IInv' /\ (RetriesSuffice => RetriesSuffice')
    BY <1>1, <1>3, ProcessTypes, ProcessAttempts DEF IInv
  <1>4. CASE Tick
    BY <1>4, TickTypes, TickAttempts DEF IInv
  <1>5. CASE (\E given \in UserSpecs : UserCreates(given) \/ UserEdits(given)) \/ UserDeletes
    <2>1. TypeInv' /\ UNCHANGED <<proc, missed>>
      BY <1>5, UserTypes DEF IInv
    <2>2. QED
      BY <2>1 DEF IInv, Attempts, RetriesSuffice
  <1>6. CASE UNCHANGED vars
    BY <1>6 DEF vars, IInv, TypeInv, TypeOK, StoredOK, Attempts, RetriesSuffice
  <1>7. QED
    BY <1>2, <1>3, <1>4, <1>5, <1>6 DEF Next

LEMMA Invariance == Spec => []IInv
  <1>1. IInv /\ [Next]_vars => IInv'
    BY InvStep
  <1>2. QED
    BY <1>1, InvInit, PTL DEF Spec

----------------------------------------------------------------------------
(***************************************************************************)
(* The variables of the bootstrapper, its processes and the API server     *)
(* have their types, however many processes run, crash and are restarted.  *)
(***************************************************************************)
THEOREM TypeCorrect == Spec => []TypeOK
  <1>1. IInv => TypeOK
    BY DEF IInv, TypeInv
  <1>2. QED
    BY <1>1, Invariance, PTL

(***************************************************************************)
(* Every stored Configuration is defaulted (StoredIsDefaulted), for every  *)
(* spec that can be written: Webhook.Default and the defaults of the       *)
(* schema keep what the author named and give requests within limits to a  *)
(* workload that names none.                                               *)
(***************************************************************************)
THEOREM ConfigurationsAreDefaulted == Spec => []StoredIsDefaulted
  <1>1. IInv => StoredIsDefaulted
    BY DEF IInv, TypeInv, StoredOK, StoredIsDefaulted, Exists, Good
  <1>2. QED
    BY <1>1, Invariance, PTL

(***************************************************************************)
(* The six attempts of createConfigurationWithRetry outlast every webhook  *)
(* server that serves within 30 seconds of its start: a bootstrapper runs  *)
(* out of them only if the last request itself fails.  With 31 seconds     *)
(* this is false.                                                          *)
(***************************************************************************)
THEOREM RetriesOutlastTheWebhook ==
    ASSUME WebhookDelay < 31
    PROVE  Spec => []RetriesSuffice
  <1>1. Init => IInv /\ RetriesSuffice
    BY InvInit
  <1>2. (IInv /\ RetriesSuffice) /\ [Next]_vars => (IInv /\ RetriesSuffice)'
    BY InvStep
  <1>3. QED
    BY <1>1, <1>2, PTL DEF Spec

(***************************************************************************)
(* No step of a bootstrapper replaces a Configuration (NeverReplaced): the *)
(* create after the lookup meets whatever users and other leaders created  *)
(* in between, and leaves it alone.                                        *)
(***************************************************************************)
THEOREM ConfigurationsAreKept == Spec => NeverReplaced
  <1> DEFINE Kept == Exists /\ Exists' /\ config'.author = "bootstrap" => UNCHANGED config
  <1>1. ASSUME [Next]_vars
        PROVE  Kept
    <2>1. ASSUME NEW p \in Processes, Advance(p)
          PROVE  Kept
      BY <2>1 DEF Advance, Start, lookupConfiguration, loadConfigMap,
                  createConfigurationWithRetry, Exists
    <2>2. ASSUME NEW p \in Processes,
                 Launch(p) \/ Serve(p) \/ Acquire(p) \/ Deliver(p) \/ LookupFails(p)
                   \/ CreateFails(p) \/ Crash(p)
          PROVE  Kept
      BY <2>2 DEF Launch, Serve, Acquire, Deliver, LookupFails, CreateFails, Crash
    <2>3. ASSUME NEW given \in UserSpecs, UserCreates(given) \/ UserEdits(given)
          PROVE  Kept
      <3>1. config'.author = "user"
        BY <2>3 DEF UserCreates, UserEdits, Store
      <3>2. QED
        BY <3>1
    <2>4. CASE Tick \/ UserDeletes \/ UNCHANGED vars
      BY <2>4 DEF Tick, UserDeletes, vars, Exists
    <2>5. QED
      BY <1>1, <2>1, <2>2, <2>3, <2>4 DEF Next
  <1>2. QED
    BY <1>1, PTL DEF Spec, NeverReplaced

=============================================================================
