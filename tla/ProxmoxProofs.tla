----------------------------- MODULE ProxmoxProofs -----------------------------
(****************************************************************************)
(* The proxmox module tags no record stale whose guest was there to be seen *)
(* during all of the pass: for any guests, nodes and names, whatever        *)
(* happens in the cluster and to the records meanwhile.                     *)
(*                                                                          *)
(* StaleWasAbsent is about the two ends of a pass.  What connects them is   *)
(* Accounted: a guest that has stayed where it is, is still ahead in the    *)
(* lists, or its name has been seen.                                        *)
(****************************************************************************)
EXTENDS Proxmox, TLAPS

\* which of the pass's variables are in use at each stage
Stages ==
  /\ pc \in {"guests", "write", "untag", "attach", "find", "add", "assign", "primary"}
       => at # None
  /\ pc \in {"idle", "devices", "straying", "strayed", "nodes", "mark", "offline"}
       => at = None /\ listed = {}
  /\ at # None => at[1] \notin todo
  /\ pc \in {"mark", "offline"} => todo = {}
  /\ pc \notin {"mark", "offline"} => gone = {}
  /\ gone \cap seen = {}

Ahead(g) ==
  \/ pc \in {"idle", "devices", "straying", "strayed"}
  \/ loc[g] \in todo
  \/ at = <<loc[g], "qemu">> /\ g \in Containers
  \/ \E e \in listed : e.label = label[g]

Accounted ==
  \A g \in Guests \ moved : Listable(g) => Ahead(g) \/ label[g] \in seen

IInv == TypeOK /\ Stages /\ Accounted

(* Records stay records.                                                    *)

\* The updates of one record that the actions make
LEMMA FieldsType ==
  ASSUME NEW r \in Vm
  PROVE  /\ \A b \in BOOLEAN : [r EXCEPT !.up = b] \in Vm
         /\ [r EXCEPT !.kind = "human"] \in Vm
         /\ \A b \in BOOLEAN : [r EXCEPT !.kind = "ours", !.stale = b] \in Vm
         /\ \A g \in Guests : [r EXCEPT !.primary = g] \in Vm
         /\ \A n \in Nodes \cup {None}, b \in BOOLEAN : [r EXCEPT !.up = b, !.node = n] \in Vm
  BY DEF Vm

\* and the record put back in its place
LEMMA PutType ==
  ASSUME vm \in [Names -> Vm], NEW n, NEW r \in Vm
  PROVE  [vm EXCEPT ![n] = r] \in [Names -> Vm]
  OBVIOUS

\* Before the first pass nothing is in use.
LEMMA InitHolds == ProxmoxAssumption /\ Init => IInv
  BY DEF Init, IInv, TypeOK, Stages, Accounted, Ahead, ProxmoxAssumption, Vm, NoVm, Names

\* Each step leaves every variable well-typed.
LEMMA TypeOKStep ==
  ASSUME ProxmoxAssumption, IInv, [Next]_vars PROVE TypeOK'
  <1> USE DEF IInv, cluster, netbox, pass, since
  <1>0. NoVm \in Vm
    BY DEF NoVm, Vm
  <1>1. CASE StartPass \/ StartAstray \/ ListNodes \/ NodeDone \/ ListVanished
    BY <1>1 DEF StartPass, StartAstray, Begin, ListNodes, NodeDone, ListVanished, Vanished, TypeOK
  <1>2. CASE LeaveVm \/ NothingToAttach \/ NoAnswer
    BY <1>0, <1>2 DEF LeaveVm, NothingToAttach, NoAnswer, Leave, TypeOK
  <1>3. CASE PassEnds \/ Refused \/ Fails
    BY <1>0, <1>3 DEF PassEnds, Refused, Fails, Forget, Torn, TypeOK
  <1>4. CASE UpdateVm
    <2>1. name \in Names /\ guest.up \in BOOLEAN /\ Node \in Nodes \cup {None}
      BY <1>4 DEF UpdateVm, TypeOK, Stages, Node, Entry
    <2>2. vm[name] \in Vm  BY <2>1 DEF TypeOK
    <2>3. Update \in Vm    BY <2>1, <2>2 DEF Update, Vm
    <2>4. vm' \in [Names -> Vm]
      BY <1>4, <2>2, <2>3, PutType DEF UpdateVm, TypeOK
    <2> QED
      BY <1>4, <2>4 DEF UpdateVm, Stay, TypeOK
  <1>5. CASE CreateVm
    <2>1. name \in Names /\ guest.up \in BOOLEAN /\ Node \in Nodes \cup {None}
      BY <1>5 DEF CreateVm, TypeOK, Stages, Node, Entry
    <2>2. vm' \in [Names -> Vm]
      BY <1>5, <2>1 DEF CreateVm, TypeOK, Vm
    <2> QED
      BY <1>5, <2>2 DEF CreateVm, Stay, TypeOK
  <1>6. CASE UntagVm
    <2>1. name \in Names /\ vm[name] \in Vm
      BY <1>6 DEF UntagVm, TypeOK
    <2>2. vm' = [vm EXCEPT ![name] = [vm[name] EXCEPT !.kind = "ours", !.stale = FALSE]]
      BY <1>6, <2>1 DEF UntagVm
    <2>3. vm' \in [Names -> Vm]
      BY <2>1, <2>2, FieldsType, PutType DEF TypeOK
    <2> QED
      BY <1>6, <2>3 DEF UntagVm, Stay, TypeOK
  <1>7. CASE Attach \/ FindAddress \/ AddAddress \/ AssignAddress
    <2>1. name \in Names /\ guest.id \in Guests
      BY <1>7 DEF Attach, FindAddress, AddAddress, AssignAddress, TypeOK, Entry
    <2>2. UNCHANGED <<vm, dev, joined, cluster, torn, changes, faults>>
      BY <1>7 DEF Attach, FindAddress, AddAddress, AssignAddress
    <2>3. on' \in [Guests -> Names \cup {None}]
      BY <1>7, <2>1 DEF Attach, FindAddress, AddAddress, AssignAddress, TypeOK
    <2>4. rec' \in [Guests -> {"none", "ours", "theirs"}]
      BY <1>7, <2>1 DEF Attach, FindAddress, AddAddress, AssignAddress, TypeOK
    <2>5. \/ Leave
          \/ /\ pc \in {"attach", "find", "add", "assign"}
             /\ Stay("find") \/ Stay("add") \/ Stay("assign") \/ Stay("primary")
      BY <1>7 DEF Attach, FindAddress, AddAddress, AssignAddress, Assigned
    <2>6. CASE Leave
      BY <1>0, <2>2, <2>3, <2>4, <2>6 DEF Leave, TypeOK
    <2>7. CASE /\ pc \in {"attach", "find", "add", "assign"}
               /\ Stay("find") \/ Stay("add") \/ Stay("assign") \/ Stay("primary")
      BY <2>2, <2>3, <2>4, <2>7 DEF Stay, TypeOK
    <2> QED
      BY <2>5, <2>6, <2>7
  <1>8. CASE SetPrimary
    BY <1>8 DEF SetPrimary, Leave, TypeOK, Vm, NoVm, Entry
  <1>9. CASE SetOffline
    <2>1. name \in Names /\ vm[name] \in Vm
      BY <1>9 DEF SetOffline, TypeOK
    <2>2. vm' = [vm EXCEPT ![name] = [vm[name] EXCEPT !.up = FALSE]]
      BY <1>9 DEF SetOffline
    <2>3. vm' \in [Names -> Vm]
      BY <2>1, <2>2, FieldsType, PutType DEF TypeOK
    <2> QED
      BY <1>9, <2>3 DEF SetOffline, TypeOK
  <1>10. CASE \E e \in listed : ReadVm(e)
    <2> SUFFICES ASSUME NEW e \in listed, ReadVm(e) PROVE TypeOK'
      BY <1>10
    <2>1. e \in Entry /\ e # None /\ e.label \in Labels \cup {None} /\ e.id \in Guests
      BY DEF TypeOK, Entry, ProxmoxAssumption
    <2>2. NameOf(e) \in Names /\ NameOf(e) # None
      BY <2>1 DEF NameOf, Names
    <2>3. vm[NameOf(e)] \in Vm
      BY <2>2 DEF TypeOK
    <2> QED
      BY <2>1, <2>2, <2>3 DEF ReadVm, TypeOK
  <1>11. CASE \E n \in Names : TagStale(n)
    <2> SUFFICES ASSUME NEW n \in Names, TagStale(n) PROVE TypeOK'
      BY <1>11
    <2>1. vm' = [vm EXCEPT ![n] = [vm[n] EXCEPT !.kind = "ours", !.stale = TRUE]]
      BY DEF TagStale, TypeOK, Vm
    <2>2. vm' \in [Names -> Vm]
      BY <2>1, FieldsType, PutType DEF TypeOK
    <2>3. n # None
      BY DEF Names, ProxmoxAssumption
    <2> QED
      BY <2>2, <2>3 DEF TagStale, TypeOK
  <1>12. CASE \E n \in Nodes : SyncNode(n)
    BY <1>12 DEF SyncNode, TypeOK
  <1>13. CASE \E n \in Nodes, k \in Kinds : ListGuests(n, k)
    BY <1>13 DEF ListGuests, On, EntryOf, TypeOK, Entry
  <1>14. CASE \E g \in Guests, n \in Nodes \cup {None} : Move(g, n)
    BY <1>14 DEF Move, Change, TypeOK
  <1>15. CASE \E g \in Guests : Power(g)
    BY <1>15 DEF Power, Change, TypeOK
  <1>16. CASE \E g \in Guests, l \in Labels \cup {None} : Rename(g, l)
    BY <1>16 DEF Rename, Change, TypeOK
  <1>17. CASE \E g \in Guests : RecordAddress(g)
    BY <1>17 DEF RecordAddress, Change, TypeOK
  <1>18. CASE \E n \in Nodes : NodeFlips(n)
    BY <1>18 DEF NodeFlips, Change, TypeOK
  <1>19. CASE \E n \in Nodes : DocumentNode(n)
    BY <1>19 DEF DocumentNode, Change, TypeOK
  <1>20. CASE \E n \in Names : Document(n)
    <2> SUFFICES ASSUME NEW n \in Names, Document(n) PROVE TypeOK'
      BY <1>20
    <2>1. vm' = [vm EXCEPT ![n] = [vm[n] EXCEPT !.kind = "human"]]
      BY DEF Document
    <2>2. vm' \in [Names -> Vm]
      BY <2>1, FieldsType, PutType DEF TypeOK
    <2> QED
      BY <2>2 DEF Document, Change, TypeOK
  <1>21. CASE \E n \in Names : Delete(n)
    <2> SUFFICES ASSUME NEW n \in Names, Delete(n) PROVE TypeOK'
      BY <1>21
    <2>1. vm' \in [Names -> Vm]
      BY <1>0, PutType DEF Delete, TypeOK
    <2>2. /\ rec' \in [Guests -> {"none", "ours", "theirs"}]
          /\ on' \in [Guests -> Names \cup {None}]
      BY DEF Delete, TypeOK
    <2> QED
      BY <2>1, <2>2 DEF Delete, Change, TypeOK
  <1>22. CASE UNCHANGED vars
    BY <1>22 DEF vars, TypeOK
  <1>23. CASE \E g \in Guests : Stray(g)
    BY <1>23 DEF Stray, pass, TypeOK
  <1> QED
    BY <1>1, <1>2, <1>3, <1>4, <1>5, <1>6, <1>7, <1>8, <1>9, <1>10, <1>11,
       <1>12, <1>13, <1>14, <1>15, <1>16, <1>17, <1>18, <1>19, <1>20, <1>21, <1>22,
       <1>23
       DEF Next, PassStep

\* What happens elsewhere touches nothing of the pass.
LEMMA PassUnchanged ==
  /\ UNCHANGED vars => UNCHANGED pass /\ UNCHANGED <<cluster, moved>>
  /\ \A g \in Guests : /\ Power(g) => UNCHANGED pass
                       /\ Stray(g) => UNCHANGED pass /\ UNCHANGED <<cluster, moved>>
                       /\ RecordAddress(g) => UNCHANGED pass /\ UNCHANGED <<cluster, moved>>
                       /\ \A n : Move(g, n) => UNCHANGED pass
                       /\ \A l : Rename(g, l) => UNCHANGED pass
  /\ \A n \in Nodes : /\ NodeFlips(n) => UNCHANGED pass
                      /\ DocumentNode(n) => UNCHANGED pass /\ UNCHANGED <<cluster, moved>>
  /\ \A n \in Names : Document(n) \/ Delete(n)
                        => UNCHANGED pass /\ UNCHANGED <<cluster, moved>>
  BY DEF vars, since, Power, Stray, RecordAddress, Move, Rename, NodeFlips, DocumentNode,
     Document, Delete

\* Each step leaves what belongs to other stages empty.
LEMMA StagesStep ==
  ASSUME ProxmoxAssumption, IInv, [Next]_vars PROVE Stages'
  <1> USE DEF IInv, Stages
  <1>1. CASE UNCHANGED pass
    BY <1>1 DEF pass
  <1>2. CASE StartPass \/ StartAstray \/ ListNodes \/ NodeDone \/ ListVanished \/ SetOffline
    BY <1>2 DEF StartPass, StartAstray, Begin, ListNodes, NodeDone, ListVanished,
       Vanished, SetOffline
  <1>3. CASE UpdateVm \/ CreateVm \/ UntagVm
    BY <1>3 DEF UpdateVm, CreateVm, UntagVm, Stay
  <1>4. CASE LeaveVm \/ NothingToAttach \/ SetPrimary \/ NoAnswer
    BY <1>4 DEF LeaveVm, NothingToAttach, SetPrimary, NoAnswer, Leave, Stay
  <1>10. CASE Attach \/ FindAddress \/ AddAddress \/ AssignAddress
    BY <1>10 DEF Attach, FindAddress, AddAddress, AssignAddress, Assigned, Leave, Stay
  <1>5. CASE PassEnds \/ Refused \/ Fails
    BY <1>5 DEF PassEnds, Refused, Fails, Forget
  <1>6. CASE \E n \in Nodes : SyncNode(n)
    BY <1>6 DEF SyncNode
  <1>7. CASE \E n \in Nodes, k \in Kinds : ListGuests(n, k)
    BY <1>7 DEF ListGuests
  <1>8. CASE \E e \in listed : ReadVm(e)
    BY <1>8 DEF ReadVm
  <1>9. CASE \E n \in Names : TagStale(n)
    BY <1>9 DEF TagStale
  <1> QED
    BY <1>1, <1>2, <1>3, <1>4, <1>5, <1>6, <1>7, <1>8, <1>9, <1>10,
       PassUnchanged DEF Next, PassStep

\* Each step keeps track of the guests that stay.
LEMMA AccountedStep ==
  ASSUME ProxmoxAssumption, IInv, [Next]_vars PROVE Accounted'
  <1> USE DEF IInv, Accounted
  <1>1. CASE UNCHANGED pass /\ (UNCHANGED <<cluster, moved>>
                                \/ \E g \in Guests : Power(g))
    BY <1>1 DEF pass, cluster, since, Power, Ahead, Listable
  <1>2. CASE \E g \in Guests, n \in Nodes \cup {None} : Move(g, n)
    BY <1>2 DEF Move, pass, Ahead, Listable
  <1>3. CASE \E g \in Guests, l \in Labels \cup {None} : Rename(g, l)
    BY <1>3 DEF Rename, pass, Ahead, Listable
  <1>4. CASE \E n \in Nodes : NodeFlips(n)
    BY <1>4 DEF NodeFlips, pass, Ahead, Listable
  <1>5. CASE StartPass \/ StartAstray \/ ListNodes \/ NodeDone \/ ListVanished \/ SetOffline
    BY <1>5 DEF StartPass, StartAstray, Begin, ListNodes, NodeDone, ListVanished,
       SetOffline, cluster, since, Ahead, Listable, Stages
  <1>6. CASE UpdateVm \/ CreateVm \/ UntagVm
    BY <1>6 DEF UpdateVm, CreateVm, UntagVm, Stay, cluster, since, Ahead, Listable
  <1>7. CASE LeaveVm \/ NothingToAttach \/ SetPrimary \/ NoAnswer
    BY <1>7 DEF LeaveVm, NothingToAttach, SetPrimary, NoAnswer, Leave, Stay,
       cluster, since, Ahead, Listable
  <1>13. CASE Attach \/ FindAddress \/ AddAddress \/ AssignAddress
    BY <1>13 DEF Attach, FindAddress, AddAddress, AssignAddress, Assigned, Leave, Stay,
       cluster, since, Ahead, Listable
  <1>8. CASE PassEnds \/ Refused \/ Fails
    BY <1>8 DEF PassEnds, Refused, Fails, Forget, Ahead
  <1>9. CASE \E n \in Nodes : SyncNode(n)
    BY <1>9 DEF SyncNode, cluster, since, Ahead, Listable
  <1>10. CASE \E n \in Nodes, k \in Kinds : ListGuests(n, k)
    <2> SUFFICES ASSUME NEW n \in Nodes, NEW k \in Kinds, ListGuests(n, k),
                        NEW g \in Guests \ moved, Listable(g)
                 PROVE  Ahead(g)' \/ label[g] \in seen
      BY <1>10 DEF ListGuests, Accounted, Listable, cluster, since
    <2>1. pc \in {"nodes", "guests"} /\ listed = {}
      BY DEF ListGuests, Stages
    <2>2. \/ loc[g] \in todo \/ label[g] \in seen
          \/ at = <<loc[g], "qemu">> /\ g \in Containers
      BY <2>1 DEF Accounted, Ahead
    <2>3. ASSUME g \in On(n, k) PROVE Ahead(g)'
      <3>1. EntryOf(g) \in listed' /\ EntryOf(g).label = label'[g]
        BY <2>3 DEF ListGuests, EntryOf, cluster
      <3> QED
        BY <3>1 DEF Ahead
    <2>4. CASE k = "qemu"
      <3>1. todo' = todo \ {n} /\ at' = <<n, "qemu">> /\ at = None /\ loc' = loc
        BY <2>4 DEF ListGuests, Stages, cluster
      <3>2. CASE loc[g] = n
        BY <2>3, <2>4, <3>1, <3>2 DEF On, Ahead
      <3>3. CASE loc[g] # n
        BY <2>2, <3>1, <3>3 DEF Ahead, Listable, TypeOK, Kinds, ProxmoxAssumption
      <3> QED
        BY <3>2, <3>3
    <2>5. CASE k = "lxc"
      <3>1. at = <<n, "qemu">> /\ loc' = loc /\ todo' = todo \ {n}
        BY <2>5 DEF ListGuests, cluster
      <3>2. CASE loc[g] = n /\ g \in Containers
        BY <2>3, <2>5, <3>2 DEF On
      <3>3. CASE loc[g] # n
        BY <2>2, <3>1, <3>3 DEF Ahead
      <3>4. CASE loc[g] = n /\ g \notin Containers
        BY <2>2, <3>1, <3>4 DEF Stages, Kinds, TypeOK, ProxmoxAssumption
      <3> QED
        BY <3>2, <3>3, <3>4
    <2> QED
      BY <2>4, <2>5 DEF Kinds
  <1>11. CASE \E e \in listed : ReadVm(e)
    BY <1>11 DEF ReadVm, cluster, since, Ahead, Listable
  <1>12. CASE \E n \in Names : TagStale(n)
    BY <1>12 DEF TagStale, cluster, since, Ahead, Listable
  <1> QED
    BY <1>1, <1>2, <1>3, <1>4, <1>5, <1>6, <1>7, <1>8, <1>9, <1>10, <1>11, <1>12, <1>13,
       PassUnchanged DEF Next, PassStep

\* The invariant holds in every behaviour.
LEMMA IInvHolds == Spec => []IInv
  <1>1. Init => IInv
    BY InitHolds, ProxmoxAssumption
  <1>2. IInv /\ [Next]_vars => IInv'
    BY TypeOKStep, StagesStep, AccountedStep, ProxmoxAssumption DEF IInv
  <1> QED
    BY <1>1, <1>2, PTL DEF Spec

\* Every variable keeps its type.
THEOREM Typing == Spec => []TypeOK
  <1>1. IInv => TypeOK
    BY DEF IInv
  <1> QED
    BY <1>1, IInvHolds, PTL

\* A tag that is new was put on by TagStale.
LEMMA OnlyTagStale ==
  ASSUME IInv, [Next]_vars, NEW n \in Names,
         vm[n].kind = "ours", ~vm[n].stale, vm'[n].stale
  PROVE  TagStale(n)
  <1> USE DEF IInv, TypeOK, netbox
  <1>1. vm' # vm
    OBVIOUS
  <1>2. CASE UpdateVm
    BY <1>2 DEF UpdateVm, Update, Vm
  <1>3. CASE CreateVm
    BY <1>3 DEF CreateVm
  <1>4. CASE UntagVm
    BY <1>4 DEF UntagVm, Vm
  <1>5. CASE SetPrimary
    BY <1>5 DEF SetPrimary, Vm
  <1>6. CASE SetOffline
    BY <1>6 DEF SetOffline, Vm
  <1>7. CASE \E m \in Names : TagStale(m)
    BY <1>7 DEF TagStale, Vm
  <1>8. CASE \E m \in Names : Document(m)
    BY <1>8 DEF Document, Vm
  <1>9. CASE \E m \in Names : Delete(m)
    BY <1>9 DEF Delete, NoVm
  <1>10. CASE \/ StartPass \/ StartAstray \/ ListNodes \/ NodeDone \/ LeaveVm \/ Attach
              \/ FindAddress \/ AddAddress \/ AssignAddress \/ NothingToAttach
              \/ ListVanished \/ PassEnds \/ Refused \/ NoAnswer \/ Fails
    BY <1>1, <1>10 DEF StartPass, StartAstray, Begin, ListNodes, NodeDone, LeaveVm, Attach,
       FindAddress, AddAddress, AssignAddress, NothingToAttach, ListVanished,
       PassEnds, Refused, NoAnswer, Fails
  <1>11. CASE \E m \in Nodes : \/ SyncNode(m) \/ NodeFlips(m) \/ DocumentNode(m)
                               \/ \E k \in Kinds : ListGuests(m, k)
    BY <1>1, <1>11 DEF SyncNode, NodeFlips, DocumentNode, ListGuests
  <1>12. CASE \E e \in listed : ReadVm(e)
    BY <1>1, <1>12 DEF ReadVm
  <1>13. CASE \E g \in Guests : \/ Power(g) \/ RecordAddress(g) \/ Stray(g)
                                \/ \E m \in Nodes \cup {None} : Move(g, m)
                                \/ \E l \in Labels \cup {None} : Rename(g, l)
    BY <1>1, <1>13 DEF Power, RecordAddress, Stray, Move, Rename
  <1>14. CASE UNCHANGED vars
    BY <1>1, <1>14 DEF vars
  <1> QED
    BY <1>2, <1>3, <1>4, <1>5, <1>6, <1>7, <1>8, <1>9, <1>10, <1>11, <1>12, <1>13, <1>14
       DEF Next, PassStep

\* No record is tagged stale when a guest of that name was there all along.
THEOREM StaleOnlyTheAbsent == Spec => StaleWasAbsent
  <1>1. IInv /\ [Next]_vars =>
          \A n \in Names :
            vm[n].kind = "ours" /\ ~vm[n].stale /\ vm'[n].stale
              => \A g \in Guests \ moved : Listable(g) => label[g] # n
    <2> SUFFICES ASSUME IInv, [Next]_vars, NEW n \in Names,
                        vm[n].kind = "ours", ~vm[n].stale, vm'[n].stale,
                        NEW g \in Guests \ moved, Listable(g)
                 PROVE  label[g] # n
      OBVIOUS
    <2>1. pc = "mark" /\ n \in gone
      BY OnlyTagStale DEF TagStale, IInv
    <2>2. <<loc[g], "qemu">> # None
      <3>1. loc[g] \in Nodes
        BY DEF IInv, TypeOK, Listable
      <3>2. <<loc[g], "qemu">> \in Nodes \X Kinds
        BY <3>1 DEF Kinds
      <3> QED
        BY <3>2, ProxmoxAssumption DEF ProxmoxAssumption
    <2>3. ~Ahead(g)
      BY <2>1, <2>2 DEF IInv, Stages, Ahead
    <2>4. label[g] \in seen
      BY <2>3 DEF IInv, Accounted
    <2> QED
      BY <2>1, <2>4 DEF IInv, Stages
  <1> QED
    BY <1>1, IInvHolds, PTL DEF Spec, StaleWasAbsent

-------------------------------------------------------------------------------
(* Others' records.  A record the pass works on was ours when it was read,  *)
(* and is unless it was deleted or taken over since.                        *)

Ours(n) == /\ n \notin deleted \cup taken => vm[n].kind = "ours"
           /\ n \notin taken => vm[n].kind # "human"

InHandIsOurs ==
  /\ \A n \in gone : Ours(n)
  /\ pc = "write" /\ copy.kind = "none" => (name \notin taken => vm[name].kind # "human")
  /\ pc = "write" /\ copy.kind = "ours" => Ours(name)
  /\ pc \in {"untag", "attach", "find", "add", "assign", "primary", "offline"} => Ours(name)
  /\ pc = "assign" /\ guest.id \notin late => rec[guest.id] # "theirs"

OInv == IInv /\ InHandIsOurs

\* A step of a pass keeps it.
LEMMA PassKeepsOurs ==
  ASSUME ProxmoxAssumption, OInv, PassStep \/ NoAnswer \/ Fails PROVE InHandIsOurs'
  <1> USE DEF OInv, IInv, TypeOK, InHandIsOurs, Ours, netbox, since
  <1>1. CASE StartPass \/ ListNodes \/ NodeDone
    BY <1>1 DEF StartPass, Begin, ListNodes, NodeDone
  <1>14. CASE \E g \in Guests : Stray(g)
    BY <1>14 DEF Stray, pass
  <1>2. CASE LeaveVm \/ NothingToAttach \/ NoAnswer
    BY <1>2 DEF LeaveVm, NothingToAttach, NoAnswer, Leave, Stages
  <1>3. CASE PassEnds \/ Refused \/ Fails
    BY <1>3 DEF PassEnds, Refused, Fails, Forget
  <1>4. CASE UpdateVm
    <2>1. vm[name] \in Vm /\ name \in Names
      BY <1>4 DEF UpdateVm
    <2>2. vm'[name].kind = vm[name].kind
      BY <1>4, <2>1 DEF UpdateVm, Update, Vm
    <2> QED
      BY <1>4, <2>2 DEF UpdateVm, Stay, Stages
  <1>5. CASE CreateVm
    BY <1>5 DEF CreateVm, Stay, Stages
  <1>6. CASE UntagVm
    BY <1>6 DEF UntagVm, Stay, Stages, Vm
  <1>7. CASE Attach \/ FindAddress \/ AddAddress \/ AssignAddress
    <2>1. vm' = vm /\ pc \in {"attach", "find", "add", "assign"}
      BY <1>7 DEF Attach, FindAddress, AddAddress, AssignAddress
    <2>2. CASE Leave
      BY <2>1, <2>2 DEF Leave, Stages
    <2>3. CASE Stay("find") \/ Stay("add") \/ Stay("primary")
      <3>1. Ours(name)
        BY <1>7 DEF Attach, FindAddress, AddAddress, AssignAddress
      <3> QED
        BY <2>1, <2>3, <3>1 DEF Stay
    <2>4. CASE Stay("assign") /\ rec[guest.id] = "ours" /\ rec' = rec /\ pc = "find"
      BY <2>1, <2>4 DEF Stay
    <2>5. \/ Leave \/ Stay("find") \/ Stay("add") \/ Stay("primary")
          \/ FindAddress /\ Stay("assign") /\ rec[guest.id] = "ours"
      BY <1>7 DEF Attach, FindAddress, AddAddress, AssignAddress, Assigned
    <2> QED
      BY <2>2, <2>3, <2>4, <2>5 DEF FindAddress
  <1>8. CASE SetPrimary
    BY <1>8 DEF SetPrimary, Leave, Stages
  <1>9. CASE ListVanished
    BY <1>9 DEF ListVanished, Vanished
  <1>10. CASE SetOffline
    BY <1>10 DEF SetOffline, Vm
  <1>11. CASE \E n \in Nodes : SyncNode(n) \/ \E k \in Kinds : ListGuests(n, k)
    BY <1>11 DEF SyncNode, ListGuests, Stages
  <1>12. CASE \E e \in listed : ReadVm(e)
    BY <1>12 DEF ReadVm, Stages
  <1>13. CASE \E n \in Names : TagStale(n)
    BY <1>13 DEF TagStale, Vm
  <1> QED
    BY <1>1, <1>2, <1>3, <1>4, <1>5, <1>6, <1>7, <1>8, <1>9, <1>10, <1>11, <1>12, <1>13, <1>14
       DEF PassStep

\* So does what happens elsewhere: who takes a record over or deletes it is noted.
LEMMA OthersKeepOurs ==
  ASSUME ProxmoxAssumption, OInv, [Next]_vars, ~(PassStep \/ NoAnswer \/ Fails)
  PROVE  InHandIsOurs'
  <1> USE DEF OInv, IInv, TypeOK, InHandIsOurs, Ours
  <1>1. CASE UNCHANGED <<pass, vm, deleted, taken, rec, late>>
    BY <1>1 DEF pass
  <1>4. CASE StartAstray
    BY <1>4 DEF StartAstray, Begin, netbox
  <1>5. CASE \E g \in Guests : RecordAddress(g)
    BY <1>5 DEF RecordAddress, pass
  <1>2. CASE \E n \in Names : Document(n)
    <2> SUFFICES ASSUME NEW n \in Names, Document(n) PROVE InHandIsOurs'
      BY <1>2
    <2>1. /\ \A m \in Names \ {n} : vm'[m] = vm[m]
          /\ n \in InHand => n \in taken'
          /\ taken \subseteq taken' /\ deleted' = deleted /\ UNCHANGED <<pass, rec, late>>
      BY DEF Document
    <2> QED
      BY <2>1 DEF pass, InHand
  <1>3. CASE \E n \in Names : Delete(n)
    <2> SUFFICES ASSUME NEW n \in Names, Delete(n) PROVE InHandIsOurs'
      BY <1>3
    <2>1. /\ \A m \in Names \ {n} : vm'[m] = vm[m]
          /\ vm'[n].kind = "none"
          /\ n \in InHand => n \in deleted'
          /\ deleted \subseteq deleted' /\ taken' = taken /\ UNCHANGED <<pass, late>>
      BY DEF Delete, NoVm
    <2>2. \A g \in Guests : rec'[g] = "theirs" => rec[g] = "theirs"
      BY DEF Delete
    <2>3. pc = "assign" => guest.id \in Guests
      BY DEF Entry
    <2> QED
      BY <2>1, <2>2, <2>3 DEF pass, InHand
  <1> QED
    BY <1>1, <1>2, <1>3, <1>4, <1>5 DEF Next, vars, netbox, since, Power, Move, Rename,
       NodeFlips, DocumentNode

LEMMA OInvHolds == Spec => []OInv
  <1>1. Init => OInv
    BY InitHolds, ProxmoxAssumption DEF Init, OInv, InHandIsOurs
  <1>2. OInv /\ [Next]_vars => OInv'
    BY TypeOKStep, StagesStep, AccountedStep, PassKeepsOurs, OthersKeepOurs, ProxmoxAssumption
       DEF OInv, IInv
  <1> QED
    BY <1>1, <1>2, PTL DEF Spec

\* No pass changes a record that is a person's when the pass reads it, nor the
\* assignment of another's address, nor does it assign one to a person's record.
THEOREM OthersAreKept == Spec => OthersKept
  <1> DEFINE Kept ==
        /\ \A n \in Names \ taken : vm[n].kind = "human" => vm'[n] = vm[n]
        /\ \A g \in Guests : rec[g] = "theirs" /\ on'[g] # on[g] => g \in late
        /\ \A g \in Guests : on'[g] \in Names \ taken /\ on'[g] # on[g]
                               => vm[on'[g]].kind = "ours"
  <1>1. OInv /\ [Next]_vars => [PassStep => Kept]_vars
    <2> SUFFICES ASSUME OInv, PassStep PROVE Kept
      OBVIOUS
    <2> USE DEF OInv, IInv, TypeOK, InHandIsOurs, Ours, netbox
    <2>1. CASE \/ StartPass \/ ListNodes \/ NodeDone \/ LeaveVm \/ NothingToAttach
               \/ ListVanished \/ PassEnds \/ Refused
               \/ \E n \in Nodes : SyncNode(n) \/ \E k \in Kinds : ListGuests(n, k)
               \/ \E e \in listed : ReadVm(e)
               \/ Attach \/ FindAddress \/ \E g \in Guests : Stray(g)
      BY <2>1 DEF StartPass, Begin, Attach, FindAddress, Stray, ListNodes, NodeDone,
         LeaveVm, NothingToAttach, ListVanished,
         PassEnds, Refused, SyncNode, ListGuests, ReadVm
    <2>2. CASE UpdateVm \/ CreateVm \/ UntagVm \/ SetPrimary \/ SetOffline
      BY <2>2 DEF UpdateVm, CreateVm, UntagVm, SetPrimary, SetOffline
    <2>3. CASE \E n \in Names : TagStale(n)
      BY <2>3 DEF TagStale
    <2>4. CASE AddAddress \/ AssignAddress
      <3>1. guest.id \in Guests /\ name \in Names /\ Ours(name)
        BY <2>4 DEF AddAddress, AssignAddress, Entry
      <3>2. UNCHANGED vm
        BY <2>4 DEF AddAddress, AssignAddress
      <3>3. \A g \in Guests : on'[g] # on[g] =>
              /\ g = guest.id /\ (rec[g] = "theirs" => g \in late)
              /\ on'[g] = None \/ (on'[g] = name /\ name \notin deleted)
        BY <2>4, <3>1 DEF AddAddress, AssignAddress
      <3>4. None \notin Names
        BY ProxmoxAssumption DEF ProxmoxAssumption, Names
      <3> QED
        BY <3>1, <3>2, <3>3, <3>4
    <2> QED
      BY <2>1, <2>2, <2>3, <2>4 DEF PassStep
  <1> QED
    BY <1>1, OInvHolds, PTL DEF Spec, OthersKept
================================================================================
