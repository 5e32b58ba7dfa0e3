------------------------------- MODULE Uids --------------------------------
(***************************************************************************)
(* Expert uid allocation of hivemind/moe/server/server.py: _generate_uids  *)
(* (lines 362-393), the loop of Server.create that builds the experts dict *)
(* from its result (lines 167-202), and the DHT handler thread that later  *)
(* declares the hosted experts in the DHT.  Several servers run this       *)
(* concurrently against one DHT.                                           *)
(*                                                                         *)
(* A pattern is a sequence of tokens: the placeholders "{layer_id}" and    *)
(* "{expert_id}" and literal characters.  str.format renders an index in   *)
(* decimal, so a uid is a sequence of characters.                          *)
(***************************************************************************)
EXTENDS Naturals, Sequences, SequencesExt, FiniteSets

CONSTANTS
    Servers,        \* the server processes calling Server.create
    NumExperts,     \* num_experts of each server
    NumLayers,      \* num_layers of each server
    LayersStart,    \* layers_index_start of each server
    Pattern         \* expert_pattern of each server

LayerPh  == "{layer_id}"
ExpertPh == "{expert_id}"

ASSUME UidsAssumption ==
    /\ \A s \in Servers :
        /\ NumExperts[s] \in Nat /\ NumLayers[s] \in Nat /\ LayersStart[s] \in Nat
        /\ Pattern[s] \in Seq(STRING)

VARIABLES
    pc,        \* per server: "sample", "check", "build", "built", "serving", "failed"
    layer,     \* layer_id of the outer loop of _generate_uids
    expert,    \* expert_id of the inner loop
    newUids,   \* the list new_uids of ExpertUID records
    experts,   \* the experts dict of create: uid -> the ExpertUID it was built for
    dht        \* the DHT's expert directory: uid -> the server that declared it

vars == <<pc, layer, expert, newUids, experts, dht>>

-----------------------------------------------------------------------------
(* str(n) for a natural number: its decimal digits.                        *)
DigitChar == <<"0", "1", "2", "3", "4", "5", "6", "7", "8", "9">>

Decimal[n \in Nat] ==
    IF n < 10 THEN <<DigitChar[n + 1]>>
    ELSE Decimal[n \div 10] \o <<DigitChar[(n % 10) + 1]>>

(* Mutant of Render: the layer placeholder is rendered as nothing.         *)
RenderNoLayer(p, l, e) ==
    FlattenSeq([i \in DOMAIN p |->
        IF p[i] = LayerPh THEN <<>>
        ELSE IF p[i] = ExpertPh THEN Decimal[e] ELSE <<p[i]>>])

(* _generate_uid: expert_pattern.format(expert_id=..., layer_id=...).      *)
Render(p, l, e) ==
    FlattenSeq([i \in DOMAIN p |->
        IF p[i] = LayerPh THEN Decimal[l]
        ELSE IF p[i] = ExpertPh THEN Decimal[e] ELSE <<p[i]>>])

UidsOf(s) == {newUids[s][i].uid : i \in DOMAIN newUids[s]}

-----------------------------------------------------------------------------
Init ==
    /\ pc = [s \in Servers |-> "sample"]
    /\ layer = [s \in Servers |-> LayersStart[s]]
    /\ expert = [s \in Servers |-> 0]
    /\ newUids = [s \in Servers |-> <<>>]
    /\ experts = [s \in Servers |-> <<>>]
    /\ dht = <<>>

(* Mutant of SampleUid: the inner loop runs up to num_experts inclusive.  *)
SampleUidInclusive(s) ==
    /\ pc[s] = "sample"
    /\ layer[s] < NumLayers[s]
    /\ expert[s] <= NumExperts[s]
    /\ newUids' = [newUids EXCEPT ![s] = Append(@,
          [uid |-> Render(Pattern[s], layer[s], expert[s]),
           expert_id |-> expert[s], layer_id |-> layer[s]])]
    /\ expert' = [expert EXCEPT ![s] = @ + 1]
    /\ UNCHANGED <<pc, layer, experts, dht>>

(* Mutant of SampleUid: the keyword arguments of ExpertUID are swapped.    *)
SampleUidSwapped(s) ==
    /\ pc[s] = "sample"
    /\ layer[s] < NumLayers[s]
    /\ expert[s] < NumExperts[s]
    /\ newUids' = [newUids EXCEPT ![s] = Append(@,
          [uid |-> Render(Pattern[s], layer[s], expert[s]),
           expert_id |-> layer[s], layer_id |-> expert[s]])]
    /\ expert' = [expert EXCEPT ![s] = @ + 1]
    /\ UNCHANGED <<pc, layer, experts, dht>>

(* One iteration of the inner loop (lines 383-385).                        *)
SampleUid(s) ==
    /\ pc[s] = "sample"
    /\ layer[s] < NumLayers[s]
    /\ expert[s] < NumExperts[s]
    /\ newUids' = [newUids EXCEPT ![s] = Append(@,
          [uid |-> Render(Pattern[s], layer[s], expert[s]),
           expert_id |-> expert[s], layer_id |-> layer[s]])]
    /\ expert' = [expert EXCEPT ![s] = @ + 1]
    /\ UNCHANGED <<pc, layer, experts, dht>>

(* The inner loop is done: next iteration of range(layers_start,           *)
(* num_layers) (line 382).                                                 *)
NextLayer(s) ==
    /\ pc[s] = "sample"
    /\ layer[s] < NumLayers[s]
    /\ expert[s] >= NumExperts[s]
    /\ layer' = [layer EXCEPT ![s] = @ + 1]
    /\ expert' = [expert EXCEPT ![s] = 0]
    /\ UNCHANGED <<pc, newUids, experts, dht>>

SampleDone(s) ==
    /\ pc[s] = "sample"
    /\ layer[s] >= NumLayers[s]
    /\ pc' = [pc EXCEPT ![s] = "check"]
    /\ UNCHANGED <<layer, expert, newUids, experts, dht>>

(* Mutant of CheckDht: any answer of get_experts, None included, raises.  *)
CheckDhtAnyFound(s) ==
    /\ pc[s] = "check"
    /\ pc' = [pc EXCEPT ![s] = IF UidsOf(s) = {} THEN "build" ELSE "failed"]
    /\ UNCHANGED <<layer, expert, newUids, experts, dht>>

(* Lines 388-392: one get_experts call on all uids; any uid already found  *)
(* raises NameError, which fails create().                                 *)
CheckDht(s) ==
    /\ pc[s] = "check"
    /\ pc' = [pc EXCEPT ![s] = IF UidsOf(s) \cap DOMAIN dht = {} THEN "build" ELSE "failed"]
    /\ UNCHANGED <<layer, expert, newUids, experts, dht>>

(* Lines 185-202: one backend per uid, stored under experts[uid]; a later  *)
(* ExpertUID with the same uid replaces the earlier one.                   *)
LastWith(s, u) ==
    newUids[s][CHOOSE i \in DOMAIN newUids[s] :
                  newUids[s][i].uid = u
                  /\ \A j \in DOMAIN newUids[s] : newUids[s][j].uid = u => j <= i]

BuildExperts(s) ==
    /\ pc[s] = "build"
    /\ experts' = [experts EXCEPT ![s] = [u \in UidsOf(s) |-> LastWith(s, u)]]
    /\ pc' = [pc EXCEPT ![s] = "built"]
    /\ UNCHANGED <<layer, expert, newUids, dht>>

(* The DHT handler thread of the started server declares every hosted     *)
(* uid, and again every update_period; the DHT keeps the latest value.    *)
Declare(s) ==
    /\ pc[s] \in {"built", "serving"}
    /\ dht' = [u \in DOMAIN experts[s] \cup DOMAIN dht |->
                IF u \in DOMAIN experts[s] THEN s ELSE dht[u]]
    /\ pc' = [pc EXCEPT ![s] = "serving"]
    /\ UNCHANGED <<layer, expert, newUids, experts>>

Next ==
    \E s \in Servers :
        \/ SampleUid(s) \/ NextLayer(s) \/ SampleDone(s)
        \/ CheckDht(s) \/ BuildExperts(s) \/ Declare(s)

Spec == Init /\ [][Next]_vars

(* Each server is a process of its own, so each keeps taking steps.       *)
FairSpec == Spec /\ \A s \in Servers : WF_vars(SampleUid(s) \/ NextLayer(s) \/ SampleDone(s)
                                             \/ CheckDht(s) \/ BuildExperts(s) \/ Declare(s))

(* The ExpertUID records server s can generate: a uid rendered from a     *)
(* pair of its index ranges, with that pair.                               *)
GenUid(s) ==
    [uid : {Render(Pattern[s], l, e) : l \in LayersStart[s]..(NumLayers[s] - 1),
                                       e \in 0..(NumExperts[s] - 1)},
     expert_id : 0..(NumExperts[s] - 1),
     layer_id : LayersStart[s]..(NumLayers[s] - 1)]

TypeOK ==
    /\ pc \in [Servers -> {"sample", "check", "build", "built", "serving", "failed"}]
    /\ layer \in [Servers -> Nat]
    /\ expert \in [Servers -> Nat]
    /\ DOMAIN newUids = Servers
    /\ \A s \in Servers : newUids[s] \in Seq(GenUid(s))
    /\ DOMAIN experts = Servers
    /\ dht \in [DOMAIN dht -> Servers]

-----------------------------------------------------------------------------
(* PROPERTIES                                                              *)

(* A created server hosts one expert per generated ExpertUID: no two      *)
(* (layer_id, expert_id) pairs render to the same uid, so the experts dict *)
(* of create (line 193) loses none of them.  The spec's testable property *)
(* 4 asks for no duplicates, and num_experts = len(expert_uids) (line 171) *)
(* sizes the connection handlers by this count.                            *)
HostsEveryGeneratedUid ==
    \A s \in Servers :
        pc[s] \in {"built", "serving"} =>
            Cardinality(DOMAIN experts[s]) = Len(newUids[s])

(* Some server ends up serving: a NameError is raised only for a uid that *)
(* get_experts really found (the "is not None" test of line 391), and the *)
(* first server to check finds its uids free.                             *)
SomeServerServes == <>(\E s \in Servers : pc[s] = "serving")
-----------------------------------------------------------------------------
(* INDUCTIVE INVARIANT (proved in UidsProofs.tla)                          *)

(* The (layer_id, expert_id) pair of the i-th generated ExpertUID, and the *)
(* order the two nested loops of _generate_uids visit pairs in.            *)
Pair(s, i) == <<newUids[s][i].layer_id, newUids[s][i].expert_id>>

Before(a, b) == a[1] < b[1] \/ (a[1] = b[1] /\ a[2] < b[2])

(* The loops of server s generate each pair once, in loop order, each uid *)
(* rendered from its own pair, all of them before the loops' current      *)
(* pair; once create has built its experts dict, the dict is keyed by     *)
(* exactly the generated uids.                                             *)
GenInv(s) ==
    /\ layer[s] >= LayersStart[s]
    /\ \A i \in DOMAIN newUids[s] :
          newUids[s][i].uid = Render(Pattern[s], newUids[s][i].layer_id, newUids[s][i].expert_id)
    /\ \A i, j \in DOMAIN newUids[s] : i < j => Before(Pair(s, i), Pair(s, j))
    /\ \A i \in DOMAIN newUids[s] : Before(Pair(s, i), <<layer[s], expert[s]>>)
    /\ pc[s] \in {"built", "serving"} => DOMAIN experts[s] = UidsOf(s)

(* GenInv holds for every server, whatever its pattern, colliding ones     *)
(* included.                                                               *)
UidsInv == TypeOK /\ \A s \in Servers : GenInv(s)

(* The pattern of server s renders distinct index pairs of its ranges as   *)
(* distinct uids (str.format of expert_pattern, line 377).                 *)
RendersApart(s) ==
    \A l1, l2 \in LayersStart[s]..(NumLayers[s] - 1) :
        \A e1, e2 \in 0..(NumExperts[s] - 1) :
            Render(Pattern[s], l1, e1) = Render(Pattern[s], l2, e2) => l1 = l2 /\ e1 = e2
=============================================================================
