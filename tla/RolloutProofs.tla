---------------------------- MODULE RolloutProofs ----------------------------
(***************************************************************************)
(* Proofs about Rollout: for every set of object types, followed           *)
(* workloads, editable features and deletable objects, and any number of   *)
(* disturbances.                                                           *)
(***************************************************************************)
EXTENDS Rollout, TLAPS

(* The list of the Secrets: one template, whose object is there with TLS. *)
LEMMA SecretNames ==
    ASSUME NEW v \in Specs, "Secret" \in Types
    PROVE  LET list == NamesOf[v]["Secret"]
           IN  /\ Len(list) = 1 /\ DOMAIN list = 1..1
               /\ Requests(list) # {} => v.enableSSL
  <1> DEFINE table == [ w \in Specs |-> [ t \in Types |->
               LET l == OrderedObjectList(w, 0, 1)[t]
               IN  [i \in 1..Len(l) |-> NameOf(l[i])] ] ]
             secret == kube_ovn_tls_secret(v, 0, 1)
             list   == NamesOf[v]["Secret"]
  <1>1. NamesOf = table
    BY DEF NamesOf, Tabled
  <1>2. OrderedObjectList(v, 0, 1)["Secret"] = <<secret>>
    BY DEF OrderedObjectList, SecretList
  <1>3. list = [i \in 1..1 |-> NameOf(<<secret>>[i])]
    <2> HIDE DEF secret
    <2> QED
      BY <1>1, <1>2
  <1>4. list = <<NameOf(secret)>>
    <2> HIDE DEF secret, list
    <2> QED
      BY <1>3
  <1>5. Len(list) = 1 /\ DOMAIN list = 1..1 /\ list[1] = NameOf(secret)
    <2> HIDE DEF secret, list
    <2> QED
      BY <1>4
  <1>6. ASSUME Requests(list) # {}
        PROVE  v.enableSSL
    <2>1. NameOf(secret) # {}
      <3> HIDE DEF secret, list
      <3> QED
        BY <1>5, <1>6 DEF Requests
    <2>2. secret # Skipped
      BY <2>1 DEF NameOf
    <2>3. QED
      BY <2>2 DEF kube_ovn_tls_secret, Only
  <1>7. QED
    BY <1>5, <1>6

----------------------------------------------------------------------------
(* The inductive invariant.                                                *)

Passes == [v : Specs, todo : SUBSET Types, at : Types \cup {"none"}, cert : Nat]

Shape ==
    /\ spec \in Specs
    /\ tls \in Nat
    /\ made \in Nat
    /\ pass \in Passes \cup {NoPass}

(* The pass holds a Secret that it has rendered. *)
Rendered == pass.at = "Secret" /\ Requests(NamesOf[pass.v]["Secret"]) # {}

(***************************************************************************)
(* What is rendered is what is stored, if anything is.  This is the fact   *)
(* between the lookup and the update: a pass that looked before the Secret *)
(* was there has not met another that stored one, since passes do not      *)
(* overlap.                                                                *)
(***************************************************************************)
Certified == Rendered => pass.cert # 0 /\ (~lost /\ tls # 0 => pass.cert = tls)

(* The pods trust the authority that is stored. *)
Trust == ~lost => \A a \in DOMAIN pods : Secure(pods[a]) => pods[a] = tls

IInv == Shape /\ Certified /\ Trust

LEMMA InvInit == Init => IInv
  <1> SUFFICES ASSUME Init
               PROVE  IInv
    OBVIOUS
  <1>1. Shape
    BY DEF Init, Shape
  <1>2. pass.at = "none" /\ DOMAIN pods = {}
    BY DEF Init, NoPass
  <1>3. QED
    BY <1>1, <1>2 DEF IInv, Certified, Rendered, Trust

(* The certificates that GenerateObjects renders. *)
LEMMA CertificatesValue ==
    ASSUME IInv, pass \in Passes, NEW t \in Types
    PROVE  /\ Certificates(t) \in Nat
           /\ t = "Secret" /\ Requests(NamesOf[pass.v]["Secret"]) # {}
                => Certificates(t) = IF tls # 0 THEN tls ELSE made + 1
  <1>1. tls \in Nat /\ made \in Nat /\ pass.v \in Specs
    BY DEF IInv, Shape, Passes
  <1>2. CASE t = "Secret" /\ Requests(NamesOf[pass.v]["Secret"]) # {}
    <2>1. pass.v.enableSSL
      BY <1>1, <1>2, SecretNames
    <2>2. Certificates(t) = IF tls # 0 THEN tls ELSE made + 1
      BY <1>2, <2>1 DEF Certificates, kube_ovn_tls_secret, Only
    <2>3. QED
      BY <1>1, <2>2
  <1>3. CASE ~(t = "Secret" /\ Requests(NamesOf[pass.v]["Secret"]) # {})
    BY <1>3 DEF Certificates
  <1>4. QED
    BY <1>2, <1>3

LEMMA GenerateStep ==
    ASSUME IInv, GenerateObjects
    PROVE  IInv'
  <1>1. PICK t \in pass.todo :
           /\ pass' = [pass EXCEPT !.at = t, !.todo = @ \ {t}, !.cert = Certificates(t)]
           /\ made' = IF Certificates(t) > made THEN Certificates(t) ELSE made
    BY DEF GenerateObjects
  <1>2. pass # NoPass
    BY <1>1 DEF NoPass
  <1>3. pass \in Passes /\ t \in Types
    BY <1>1, <1>2 DEF IInv, Shape, Passes
  <1>4. /\ Certificates(t) \in Nat
        /\ t = "Secret" /\ Requests(NamesOf[pass.v]["Secret"]) # {}
             => Certificates(t) = IF tls # 0 THEN tls ELSE made + 1
    BY <1>3, CertificatesValue
  <1>5. /\ pass' \in Passes /\ pass'.at = t /\ pass'.v = pass.v
        /\ pass'.cert = Certificates(t)
    BY <1>1, <1>3, <1>4 DEF Passes
  <1>6. UNCHANGED <<spec, tls, lost, pods>>
    BY DEF GenerateObjects, cluster
  <1>7. Shape'
    BY <1>1, <1>4, <1>5, <1>6 DEF IInv, Shape
  <1>8. Certified'
    BY <1>4, <1>5, <1>6 DEF Certified, Rendered, IInv, Shape
  <1>9. Trust'
    BY <1>6 DEF IInv, Trust
  <1>10. QED
    BY <1>7, <1>8, <1>9 DEF IInv

(***************************************************************************)
(* An apply stores what was rendered.  If there is a Secret already, that  *)
(* is the stored one; if not, no pod uses TLS yet.                         *)
(***************************************************************************)
LEMMA ApplyStep ==
    ASSUME IInv, Apply
    PROVE  IInv'
  <1>1. pass \in Passes /\ pass.at \in Types
    BY DEF Apply, IInv, Shape, Passes, NoPass
  <1>2. UNCHANGED <<spec, pods, made, lost>>
    BY DEF Apply
  <1> DEFINE t    == pass.at
             list == NamesOf[pass.v][t]
  <1>3. PICK n \in CutPoints(t, list) : ApplyFirst(n, t, list)
    BY DEF Apply
  <1> DEFINE names == UNION { list[i] : i \in 1..n }
  <1>4. /\ tls' = IF t = "Secret" /\ names # {} THEN pass.cert ELSE tls
        /\ pass' = NoPass \/ pass' = [pass EXCEPT !.at = "none", !.cert = 0]
    BY <1>3 DEF ApplyFirst
  <1>5. ASSUME t = "Secret", names # {}
        PROVE  Rendered
    <2>1. Len(list) = 1 /\ DOMAIN list = 1..1
      BY <1>1, <1>5, SecretNames DEF Passes
    <2>2. n \in {Len(list)} \cup { i - 1 : i \in Requests(list) }
      BY <1>3 DEF CutPoints, Ends
    <2>3. n \in 0..1
      <3> HIDE DEF list
      <3> QED
        BY <2>1, <2>2 DEF Requests
    <2>4. PICK i \in 1..n : list[i] # {}
      BY <1>5
    <2>5. i \in DOMAIN list
      BY <2>1, <2>3, <2>4
    <2>6. QED
      BY <1>5, <2>4, <2>5 DEF Rendered, Requests
  <1>6. tls' = tls \/ (Rendered /\ tls' = pass.cert)
    BY <1>4, <1>5
  <1>7. pass.cert \in Nat
    BY <1>1 DEF Passes
  <1>8. pass' \in Passes \cup {NoPass} /\ pass'.at = "none"
    <2>1. CASE pass' = NoPass
      BY <2>1 DEF NoPass
    <2>2. CASE pass' = [pass EXCEPT !.at = "none", !.cert = 0]
      BY <1>1, <2>2 DEF Passes
    <2>3. QED
      BY <1>4, <2>1, <2>2
  <1>9. Shape'
    BY <1>2, <1>6, <1>7, <1>8 DEF IInv, Shape
  <1>10. Certified'
    BY <1>8 DEF Certified, Rendered
  <1>11. Trust'
    <2>1. CASE tls' = tls
      BY <1>2, <2>1 DEF IInv, Trust
    <2>2. CASE Rendered /\ tls' = pass.cert /\ tls # 0
      BY <1>2, <2>2 DEF IInv, Trust, Certified
    <2>3. CASE tls = 0
      BY <1>2, <2>3 DEF IInv, Trust, Secure
    <2>4. QED
      BY <1>6, <2>1, <2>2, <2>3
  <1>12. QED
    BY <1>9, <1>10, <1>11 DEF IInv

LEMMA PodStep ==
    ASSUME IInv, NEW w \in Workloads, PodReady(w)
    PROVE  IInv'
  <1>1. UNCHANGED <<spec, tls, pass, made, lost>>
    BY DEF PodReady, cluster
  <1>2. pods' = [n \in {w.name} |-> Authority(w.name)] ++ pods
    BY DEF PodReady
  <1>3. \A a \in DOMAIN pods' :
          \/ a \in DOMAIN pods /\ pods'[a] = pods[a]
          \/ pods'[a] = Authority(w.name)
    BY <1>2 DEF ++
  <1>4. Secure(Authority(w.name)) => Authority(w.name) = tls
    BY DEF Secure, Authority
  <1>5. Trust'
    BY <1>1, <1>3, <1>4 DEF IInv, Trust, Secure
  <1>6. QED
    BY <1>1, <1>5 DEF IInv, Shape, Certified, Rendered

LEMMA EditStep ==
    ASSUME IInv, Edit
    PROVE  IInv'
  <1>1. UNCHANGED <<tls, pods, pass, made, lost>>
    BY DEF Edit, cluster
  <1>2. PICK f \in Editable : spec' = [spec EXCEPT ![f] = ~@]
    BY DEF Edit
  <1>3. f = "enableSSL" \/ f = "enableIC"
    BY EditableAssumption
  <1>4. spec' \in Specs
    BY <1>2, <1>3 DEF IInv, Shape, Specs
  <1>5. QED
    BY <1>1, <1>4 DEF IInv, Shape, Certified, Rendered, Trust

LEMMA DeleteStep ==
    ASSUME IInv, ObjectDeleted
    PROVE  IInv'
  <1>1. PICK t \in Types : \E name : Deleted(t, name)
    BY DEF ObjectDeleted
  <1>2. UNCHANGED <<spec, pass, made>>
    BY DEF ObjectDeleted
  <1>3. tls' = (IF t = "Secret" THEN 0 ELSE tls) /\ lost' = (lost \/ t = "Secret")
    BY <1>1 DEF Deleted
  <1>4. \A a \in DOMAIN pods' : a \in DOMAIN pods /\ pods'[a] = pods[a]
    BY <1>1 DEF Deleted
  <1>5. QED
    BY <1>2, <1>3, <1>4 DEF IInv, Shape, Certified, Rendered, Trust

LEMMA InvStep ==
    ASSUME IInv, [Next]_vars
    PROVE  IInv'
  <1>1. CASE StartPass
    <2>1. pass' \in Passes /\ pass'.at = "none"
      BY <1>1 DEF StartPass, NoPass, Passes, IInv, Shape
    <2>2. QED
      BY <1>1, <2>1 DEF StartPass, cluster, IInv, Shape, Certified, Rendered, Trust
  <1>2. CASE Resync \/ UNCHANGED vars
    BY <1>2 DEF Resync, vars, cluster, IInv, Shape, Certified, Rendered, Trust
  <1>3. QED
    BY <1>1, <1>2, GenerateStep, ApplyStep, PodStep, EditStep, DeleteStep DEF Next, Ready

----------------------------------------------------------------------------
(***************************************************************************)
(* As long as nobody deletes the Secret, all pods with TLS trust one       *)
(* authority (OneAuthority): no order of the types, failed pass or edit    *)
(* makes the template of the Secret (templates/secrets.go) replace the     *)
(* certificates that pods use.                                             *)
(***************************************************************************)
THEOREM OneAuthorityIsTrusted == Spec => []OneAuthority
  <1>1. IInv /\ [Next]_vars => IInv'
    BY InvStep
  <1>2. IInv => OneAuthority
    BY DEF IInv, Trust, OneAuthority
  <1>3. QED
    BY <1>1, <1>2, InvInit, PTL DEF Spec

=============================================================================
