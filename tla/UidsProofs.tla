------------------------------ MODULE UidsProofs ------------------------------
(***************************************************************************)
(* Proofs about uid allocation (Uids.tla) for every set of servers, every  *)
(* pattern and all index ranges: the types, the inductive invariant        *)
(* UidsInv, and that a server whose pattern renders distinct index pairs   *)
(* as distinct uids hosts one expert per generated uid.                    *)
(***************************************************************************)
EXTENDS Uids, FiniteSetTheorems, TLAPS

(* Before any server has sampled, nothing is generated, hosted or declared. *)
LEMMA UidsInit == Init => UidsInv
<1> SUFFICES ASSUME Init PROVE UidsInv
  OBVIOUS
<1> USE UidsAssumption DEF Init
<1>1. TypeOK
  BY DEF TypeOK
<1>2. QED
  BY <1>1 DEF UidsInv, GenInv

(* The sizes of every server are natural numbers.                         *)
LEMMA SizesNat ==
    ASSUME NEW s \in Servers
    PROVE  NumLayers[s] \in Nat /\ NumExperts[s] \in Nat /\ LayersStart[s] \in Nat
BY UidsAssumption

(* GenInv(t) speaks of server t's variables only.                          *)
LEMMA GenInvFrame ==
    ASSUME NEW t \in Servers, GenInv(t),
           pc'[t] = pc[t], layer'[t] = layer[t], expert'[t] = expert[t],
           newUids'[t] = newUids[t], experts'[t] = experts[t]
    PROVE  GenInv(t)'
BY DEF GenInv, Pair, UidsOf

(* One iteration of the inner loop appends the current pair, rendered.     *)
LEMMA SampleUidInv ==
    ASSUME UidsInv, NEW s \in Servers, SampleUid(s)
    PROVE  UidsInv'
<1> USE DEF SampleUid
<1> DEFINE r == [uid |-> Render(Pattern[s], layer[s], expert[s]),
                 expert_id |-> expert[s], layer_id |-> layer[s]]
<1>a. newUids' = [newUids EXCEPT ![s] = Append(newUids[s], r)]
  OBVIOUS
<1>n. NumLayers[s] \in Nat /\ NumExperts[s] \in Nat /\ LayersStart[s] \in Nat
  BY SizesNat
<1>b1. layer[s] \in Nat /\ layer[s] >= LayersStart[s] /\ expert[s] \in Nat
  BY DEF UidsInv, TypeOK, GenInv
<1>b. layer[s] \in LayersStart[s]..(NumLayers[s] - 1)
  BY <1>n, <1>b1
<1>c. expert[s] \in 0..(NumExperts[s] - 1)
  BY <1>n, <1>b1
<1>d. newUids[s] \in Seq(GenUid(s))
  BY DEF UidsInv, TypeOK
<1>0. /\ newUids' = [newUids EXCEPT ![s] = Append(newUids[s], r)]
      /\ layer[s] \in LayersStart[s]..(NumLayers[s] - 1)
      /\ expert[s] \in 0..(NumExperts[s] - 1)
      /\ newUids[s] \in Seq(GenUid(s))
  BY <1>a, <1>b, <1>c, <1>d
<1>1. r \in GenUid(s)
  BY <1>0 DEF GenUid
<1>2. TypeOK'
  BY <1>0, <1>1 DEF UidsInv, TypeOK
<1>3. GenInv(s)'
  <2> DEFINE q == newUids[s]
  <2>1. /\ newUids'[s] = Append(q, r)
        /\ DOMAIN newUids'[s] = 1..(Len(q) + 1)
        /\ \A i \in 1..Len(q) : newUids'[s][i] = q[i]
        /\ newUids'[s][Len(q) + 1] = r
        /\ DOMAIN q = 1..Len(q)
    BY <1>0 DEF UidsInv, TypeOK
  <2>2. \A i \in DOMAIN q : Before(Pair(s, i), <<layer[s], expert[s]>>)
    BY DEF UidsInv, GenInv
  <2>0. \A i \in DOMAIN q : q[i].layer_id \in Int /\ q[i].expert_id \in Int
    <3> SUFFICES ASSUME NEW i \in DOMAIN q
                 PROVE  q[i].layer_id \in Int /\ q[i].expert_id \in Int
      OBVIOUS
    <3>1. q[i] \in GenUid(s)
      BY <1>d
    <3>2. QED
      BY <3>1, <1>n DEF GenUid
  <2>3. layer'[s] >= LayersStart[s] /\ pc'[s] = "sample"
    BY DEF UidsInv, GenInv
  <2>4. \A i \in DOMAIN newUids'[s] :
          newUids'[s][i].uid = Render(Pattern[s], newUids'[s][i].layer_id,
                                      newUids'[s][i].expert_id)
    <3> SUFFICES ASSUME NEW i \in DOMAIN newUids'[s]
                 PROVE  newUids'[s][i].uid = Render(Pattern[s], newUids'[s][i].layer_id,
                                                    newUids'[s][i].expert_id)
      OBVIOUS
    <3>1. CASE i = Len(q) + 1
      BY <2>1, <3>1
    <3>2. CASE i \in 1..Len(q)
      <4>1. q[i].uid = Render(Pattern[s], q[i].layer_id, q[i].expert_id)
        BY <2>1, <3>2 DEF UidsInv, GenInv
      <4>2. QED
        BY <2>1, <3>2, <4>1
    <3>3. QED
      BY <2>1, <3>1, <3>2
  <2>5. expert'[s] = expert[s] + 1 /\ layer'[s] = layer[s] /\ expert[s] \in Nat
    BY DEF UidsInv, TypeOK
  <2>6. (\A i \in DOMAIN newUids[s] : Before(Pair(s, i), <<layer[s], expert[s]>>))'
    <3> SUFFICES ASSUME NEW i \in DOMAIN newUids'[s]
                 PROVE  Before(Pair(s, i), <<layer[s], expert[s]>>)'
      OBVIOUS
    <3>1. CASE i = Len(q) + 1
      BY <2>1, <2>5, <3>1 DEF Pair, Before
    <3>2. CASE i \in 1..Len(q)
      BY <2>0, <2>1, <2>2, <2>5, <3>2 DEF Pair, Before
    <3>3. QED
      BY <2>1, <3>1, <3>2
  <2>7. \A i, j \in DOMAIN newUids'[s] : i < j => Before(Pair(s, i), Pair(s, j))'
    <3> SUFFICES ASSUME NEW i \in DOMAIN newUids'[s], NEW j \in DOMAIN newUids'[s], i < j
                 PROVE  Before(Pair(s, i), Pair(s, j))'
      OBVIOUS
    <3>1. CASE j = Len(q) + 1
      <4>1. i \in 1..Len(q) /\ newUids'[s][i] = q[i]
        BY <2>1, <3>1
      <4>2. Before(<<q[i].layer_id, q[i].expert_id>>, <<layer[s], expert[s]>>)
        BY <2>1, <2>2, <4>1 DEF Pair
      <4>3. newUids'[s][j] = r
        BY <2>1, <3>1
      <4>4. QED
        BY <4>1, <4>2, <4>3 DEF Pair, Before
    <3>2. CASE j \in 1..Len(q)
      <4>1. i \in DOMAIN q /\ j \in DOMAIN q
        BY <2>1, <3>2
      <4>2. Before(Pair(s, i), Pair(s, j))
        BY <4>1 DEF UidsInv, GenInv
      <4>3. QED
        BY <2>1, <3>2, <4>1, <4>2 DEF Pair
    <3>3. QED
      BY <2>1, <3>1, <3>2
  <2>8. QED
    BY <2>3, <2>4, <2>6, <2>7 DEF GenInv
<1>4. \A t \in Servers \ {s} : GenInv(t)'
  BY GenInvFrame DEF UidsInv, TypeOK
<1>5. QED
  BY <1>2, <1>3, <1>4 DEF UidsInv

(* The outer loop moves to the next layer: every generated pair lies on   *)
(* an earlier or the finished layer, so before the new current pair.       *)
LEMMA NextLayerInv ==
    ASSUME UidsInv, NEW s \in Servers, NextLayer(s)
    PROVE  UidsInv'
<1> USE DEF NextLayer
<1>1. TypeOK'
  BY DEF UidsInv, TypeOK
<1>2. GenInv(s)'
  <2> DEFINE q == newUids[s]
  <2>1. layer'[s] = layer[s] + 1 /\ expert'[s] = 0 /\ layer[s] \in Nat
    BY DEF UidsInv, TypeOK
  <2>2. \A i \in DOMAIN q : q[i].layer_id \in Int /\ q[i].expert_id \in Int
    <3> SUFFICES ASSUME NEW i \in DOMAIN q
                 PROVE  q[i].layer_id \in Int /\ q[i].expert_id \in Int
      OBVIOUS
    <3>1. q[i] \in GenUid(s) /\ NumLayers[s] \in Nat /\ NumExperts[s] \in Nat
                              /\ LayersStart[s] \in Nat
      BY SizesNat DEF UidsInv, TypeOK
    <3>2. QED
      BY <3>1 DEF GenUid
  <2>3. \A i \in DOMAIN q : Before(Pair(s, i), <<layer[s], expert[s]>>)
    BY DEF UidsInv, GenInv
  <2>4. (\A i \in DOMAIN newUids[s] : Before(Pair(s, i), <<layer[s], expert[s]>>))'
    BY <2>1, <2>2, <2>3 DEF Pair, Before
  <2>5. layer'[s] >= LayersStart[s]
    <3>1. layer[s] >= LayersStart[s]
      BY DEF UidsInv, GenInv
    <3>2. LayersStart[s] \in Nat
      BY SizesNat
    <3>3. QED
      BY <2>1, <3>1, <3>2
  <2>6. QED
    BY <2>4, <2>5 DEF UidsInv, GenInv, Pair, UidsOf
<1>3. \A t \in Servers \ {s} : GenInv(t)'
  BY GenInvFrame DEF UidsInv, TypeOK
<1>4. QED
  BY <1>1, <1>2, <1>3 DEF UidsInv

(* Leaving the loops, and the DHT check, change only the server's pc, to  *)
(* a label before the experts dict is built.                               *)
LEMMA SampleDoneInv ==
    ASSUME UidsInv, NEW s \in Servers, SampleDone(s)
    PROVE  UidsInv'
<1> USE DEF SampleDone
<1>1. TypeOK'
  BY DEF UidsInv, TypeOK
<1>2. GenInv(s)'
  BY DEF UidsInv, GenInv, Pair, UidsOf
<1>3. \A t \in Servers \ {s} : GenInv(t)'
  BY GenInvFrame DEF UidsInv, TypeOK
<1>4. QED
  BY <1>1, <1>2, <1>3 DEF UidsInv

(* See SampleDoneInv.                                                      *)
LEMMA CheckDhtInv ==
    ASSUME UidsInv, NEW s \in Servers, CheckDht(s)
    PROVE  UidsInv'
<1> USE DEF CheckDht
<1>1. TypeOK'
  BY DEF UidsInv, TypeOK
<1>2. GenInv(s)'
  BY DEF UidsInv, GenInv, Pair, UidsOf
<1>3. \A t \in Servers \ {s} : GenInv(t)'
  BY GenInvFrame DEF UidsInv, TypeOK
<1>4. QED
  BY <1>1, <1>2, <1>3 DEF UidsInv

(* create keys its experts dict by the generated uids.                     *)
LEMMA BuildExpertsInv ==
    ASSUME UidsInv, NEW s \in Servers, BuildExperts(s)
    PROVE  UidsInv'
<1> USE DEF BuildExperts
<1>1. TypeOK'
  BY DEF UidsInv, TypeOK
<1>2. DOMAIN experts'[s] = UidsOf(s)'
  BY DEF UidsInv, TypeOK, UidsOf
<1>3. GenInv(s)'
  BY <1>2 DEF UidsInv, GenInv, Pair
<1>4. \A t \in Servers \ {s} : GenInv(t)'
  BY GenInvFrame DEF UidsInv, TypeOK
<1>5. QED
  BY <1>1, <1>3, <1>4 DEF UidsInv

(* Declaring maps hosted uids to the declaring server and leaves the      *)
(* servers' own state alone.                                               *)
LEMMA DeclareInv ==
    ASSUME UidsInv, NEW s \in Servers, Declare(s)
    PROVE  UidsInv'
<1> USE DEF Declare
<1>1. dht' \in [DOMAIN dht' -> Servers]
  BY DEF UidsInv, TypeOK
<1>2. TypeOK'
  BY <1>1 DEF UidsInv, TypeOK
<1>3. GenInv(s)'
  BY DEF UidsInv, GenInv, Pair, UidsOf
<1>4. \A t \in Servers \ {s} : GenInv(t)'
  BY GenInvFrame DEF UidsInv, TypeOK
<1>5. QED
  BY <1>2, <1>3, <1>4 DEF UidsInv

(* Every step of every server preserves UidsInv.                           *)
LEMMA UidsNext == UidsInv /\ [Next]_vars => UidsInv'
<1> SUFFICES ASSUME UidsInv, [Next]_vars PROVE UidsInv'
  OBVIOUS
<1>1. CASE UNCHANGED vars
  BY <1>1 DEF vars, UidsInv, TypeOK, GenInv, Pair, UidsOf
<1>2. CASE Next
  <2> PICK s \in Servers :
          \/ SampleUid(s) \/ NextLayer(s) \/ SampleDone(s)
          \/ CheckDht(s) \/ BuildExperts(s) \/ Declare(s)
    BY <1>2 DEF Next
  <2> QED
    BY SampleUidInv, NextLayerInv, SampleDoneInv, CheckDhtInv,
       BuildExpertsInv, DeclareInv
<1>3. QED
  BY <1>1, <1>2

(* UidsInv holds in every reachable state.                                 *)
THEOREM UidsInvariant == Spec => []UidsInv
<1>1. Init => UidsInv
  BY UidsInit
<1>2. UidsInv /\ [Next]_vars => UidsInv'
  BY UidsNext
<1>3. QED
  BY <1>1, <1>2, PTL DEF Spec

(* Type correctness of allocation, experts dicts and DHT directory:       *)
(* every generated ExpertUID is a uid rendered from a pair of the         *)
(* server's ranges, with that pair (SampleUid, lines 383-385).            *)
THEOREM UidsTypeCorrect == Spec => []TypeOK
<1>1. UidsInv => TypeOK
  BY DEF UidsInv
<1>2. QED
  BY UidsInvariant, <1>1, PTL

-----------------------------------------------------------------------------
(* The uid count of one server.                                            *)

(* Two pairs of which one comes before the other differ.                   *)
LEMMA BeforeApart ==
    ASSUME NEW a \in Int \X Int, NEW b \in Int \X Int, Before(a, b)
    PROVE  a # b
BY DEF Before

(* When server s renders distinct pairs of its ranges apart, its i-th and *)
(* j-th generated uids differ for i # j.                                   *)
LEMMA UidsDistinct ==
    ASSUME UidsInv, NEW s \in Servers, RendersApart(s),
           NEW i \in DOMAIN newUids[s], NEW j \in DOMAIN newUids[s], i # j
    PROVE  newUids[s][i].uid # newUids[s][j].uid
<1> DEFINE q == newUids[s]
<1>1. q[i] \in GenUid(s) /\ q[j] \in GenUid(s)
  BY DEF UidsInv, TypeOK
<1>2. /\ q[i].layer_id \in LayersStart[s]..(NumLayers[s] - 1)
      /\ q[j].layer_id \in LayersStart[s]..(NumLayers[s] - 1)
      /\ q[i].expert_id \in 0..(NumExperts[s] - 1)
      /\ q[j].expert_id \in 0..(NumExperts[s] - 1)
  BY <1>1 DEF GenUid
<1>3. Pair(s, i) \in Int \X Int /\ Pair(s, j) \in Int \X Int
  BY <1>2, SizesNat DEF Pair
<1>4. Pair(s, i) # Pair(s, j)
  <2>1. i \in Nat /\ j \in Nat
    BY DEF UidsInv, TypeOK
  <2>2. CASE i < j
    BY <1>3, <2>2, BeforeApart DEF UidsInv, GenInv
  <2>3. CASE j < i
    BY <1>3, <2>3, BeforeApart DEF UidsInv, GenInv
  <2>4. QED
    BY <2>1, <2>2, <2>3
<1>5. /\ q[i].uid = Render(Pattern[s], q[i].layer_id, q[i].expert_id)
      /\ q[j].uid = Render(Pattern[s], q[j].layer_id, q[j].expert_id)
  BY DEF UidsInv, GenInv
<1>6. QED
  BY <1>2, <1>4, <1>5 DEF RendersApart, Pair

(* When server s renders distinct pairs apart, it generates exactly       *)
(* Len(newUids[s]) distinct uids: i |-> the i-th uid is a bijection.       *)
LEMMA UidsCount ==
    ASSUME UidsInv, NEW s \in Servers, RendersApart(s)
    PROVE  IsFiniteSet(UidsOf(s)) /\ Cardinality(UidsOf(s)) = Len(newUids[s])
<1> DEFINE q == newUids[s]
           f == [i \in 1..Len(q) |-> q[i].uid]
<1>1. q \in Seq(GenUid(s))
  BY DEF UidsInv, TypeOK
<1>2. DOMAIN q = 1..Len(q) /\ Len(q) \in Nat
  BY <1>1
<1>3. f \in Surjection(1..Len(q), UidsOf(s))
  BY <1>2 DEF Surjection, UidsOf
<1>4. f \in Injection(1..Len(q), UidsOf(s))
  <2>1. \A i, j \in 1..Len(q) : i # j => f[i] # f[j]
    BY <1>2, UidsDistinct
  <2>2. QED
    BY <1>3, <2>1 DEF Surjection, Injection, IsInjective
<1>5. IsFiniteSet(1..Len(q)) /\ Cardinality(1..Len(q)) = Len(q)
  BY <1>2, FS_Interval
<1>6. QED
  BY <1>3, <1>4, <1>5, FS_Surjection

(* A server whose pattern renders distinct pairs of its ranges apart      *)
(* hosts, once created, one expert per generated ExpertUID: the experts    *)
(* dict of create (line 193) has len(new_uids) entries.  The hypothesis is *)
(* needed: with a pattern without "{layer_id}" two layers collide and the *)
(* uids_plain run finds the dict smaller.                                  *)
THEOREM HostsEveryUid ==
    ASSUME \A s \in Servers : RendersApart(s)
    PROVE  Spec => []HostsEveryGeneratedUid
<1>1. UidsInv => HostsEveryGeneratedUid
  <2> SUFFICES ASSUME UidsInv, NEW s \in Servers, pc[s] \in {"built", "serving"}
               PROVE  Cardinality(DOMAIN experts[s]) = Len(newUids[s])
    BY DEF HostsEveryGeneratedUid
  <2>1. DOMAIN experts[s] = UidsOf(s)
    BY DEF UidsInv, GenInv
  <2>2. QED
    BY <2>1, UidsCount
<1>2. QED
  BY UidsInvariant, <1>1, PTL

=============================================================================
