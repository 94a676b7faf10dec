----------------------------- MODULE BridgeProofs -----------------------------
(***************************************************************************)
(* Theorems about Bridge.  The argument rests on three facts: a directory  *)
(* nothing has upset has one identity (Kept), a key belongs to one         *)
(* directory (Owned), and whoever has been granted, met or paired is in    *)
(* the tables that say so (Known).                                         *)
(***************************************************************************)
EXTENDS Bridge, FiniteSetTheorems, TLAPS

\* What p has when it is at a given place.
Stages ==
    \A p \in Process :
        /\ pc[p] \in Running \cup {"open", "write", "cert"} => id[p] \in Key
        /\ pc[p] \in Serving => address[p] \in Addr
        /\ pc[p] \in {"pair", "confirm", "send", "sent"} => order[p] \in Peer
        /\ pc[p] \in {"confirm", "sent"} => met[p] \in Key
        /\ pc[p] \notin Up => hand[p] = None /\ \A k \in Key : table[p][k] = None

TInv == TypeOK /\ Stages

\* The program starts with the right types.
LEMMA InitTInv == Init => TInv
BY BridgeAssumption, IdentityAssumption, NoneAssumption
   DEF Init, IdentityInit, DiscoveryInit, TInv, TypeOK, DiscoveryTypeOK, Stages, Running, Serving, Up


\* The steps of LoadOrCreate keep the types.
LEMMA IdentityTypes ==
    ASSUME TInv, NEW p \in Process, LoadIdentity(p)
    PROVE  TypeOK'
<1> USE IdentityAssumption, NoneAssumption, BridgeAssumption
        DEF TypeOK, DiscoveryTypeOK, discoveryVars, commandVars, filesVars, Goto
<1>0. /\ pc[p] \notin Up
      /\ \A k \in Key : table[p][k] = None
      /\ pc[p] \in {"open", "write", "cert"} => id[p] \in Key
  BY DEF LoadIdentity, IdentityStep, Load, Generate, OpenKey, WriteKey, WriteCert, Up, TInv, Stages
<1>1. CASE Load(p)
  <2> USE <1>0, <1>1 DEF LoadIdentity, TInv, Running
  <2>1. \/ \E k \in Key : Returns(p, k)
        \/ Goto(p, "generate") /\ UNCHANGED <<id, used>>
    BY DEF Load
  <2>2. (unflushed \subseteq Dir /\ upset \subseteq Dir)' BY DEF Load
  <2>3. CASE \E k \in Key : Returns(p, k) BY <2>2, <2>3 DEF Returns, Load
  <2>4. CASE Goto(p, "generate") /\ UNCHANGED <<id, used>> BY <2>2, <2>4 DEF Load
  <2> QED BY <2>1, <2>3, <2>4
<1>2. CASE Generate(p) BY <1>0, <1>2 DEF LoadIdentity, Generate, TInv
<1>3. CASE OpenKey(p) BY <1>0, <1>3 DEF LoadIdentity, OpenKey, Ends, TInv
<1>4. CASE WriteKey(p)
  <2>1. \/ \E k \in Key, d \in Dir : /\ keyFile' = [keyFile EXCEPT ![d] = k]
                                    /\ unflushed' = unflushed \cup {d}
                                    /\ Goto(p, "cert") /\ UNCHANGED <<id, used>>
        \/ Ends(p) /\ UNCHANGED filesVars
    BY <1>0, <1>4 DEF WriteKey
  <2>2. UNCHANGED upset BY <1>4 DEF WriteKey
  <2>3. CASE Ends(p) /\ UNCHANGED filesVars BY <1>0, <2>2, <2>3 DEF LoadIdentity, Ends, TInv
  <2>4. CASE \E k \in Key, d \in Dir : /\ keyFile' = [keyFile EXCEPT ![d] = k]
                                        /\ unflushed' = unflushed \cup {d}
                                        /\ Goto(p, "cert") /\ UNCHANGED <<id, used>>
    BY <1>0, <2>2, <2>4 DEF LoadIdentity, TInv
  <2> QED BY <2>1, <2>3, <2>4
<1>5. CASE WriteCert(p)
  <2>1. \/ \E k \in Key : Returns(p, k)
        \/ Ends(p)
    BY <1>0, <1>5 DEF WriteCert
  <2>2. UNCHANGED <<filesVars, upset>> BY <1>5 DEF WriteCert
  <2>3. CASE Ends(p) BY <1>0, <2>2, <2>3 DEF LoadIdentity, Ends, TInv
  <2>4. CASE \E k \in Key : Returns(p, k)
    BY <1>0, <2>2, <2>4 DEF LoadIdentity, Returns, TInv, Running
  <2> QED BY <2>1, <2>3, <2>4
<1> QED BY <1>1, <1>2, <1>3, <1>4, <1>5 DEF LoadIdentity, IdentityStep

\* They leave every process what its place needs.
LEMMA IdentityStages ==
    ASSUME TInv, NEW p \in Process, LoadIdentity(p)
    PROVE  Stages'
<1> USE DEF Stages, TInv, TypeOK, discoveryVars, commandVars, filesVars, Goto
<1> SUFFICES ASSUME NEW r \in Process PROVE
        /\ pc'[r] \in Running \cup {"open", "write", "cert"} => id'[r] \in Key
        /\ pc'[r] \in Serving => address'[r] \in Addr
        /\ pc'[r] \in {"pair", "confirm", "send", "sent"} => order'[r] \in Peer
        /\ pc'[r] \in {"confirm", "sent"} => met'[r] \in Key
        /\ pc'[r] \notin Up => hand'[r] = None /\ \A k \in Key : table'[r][k] = None
  OBVIOUS
<1>1. CASE r # p
  BY <1>1 DEF LoadIdentity, IdentityStep, Load, Generate, OpenKey, WriteKey, WriteCert, Ends, Returns
<1>2. CASE r = p
  <2> USE <1>2 DEF Running, Serving, Up, LoadIdentity
  <2>1. CASE Load(p) BY <2>1 DEF Load, Returns
  <2>2. CASE Generate(p) BY <2>2 DEF Generate
  <2>3. CASE OpenKey(p) BY <2>3 DEF OpenKey, Ends
  <2>4. CASE WriteKey(p) BY <2>4 DEF WriteKey, Ends
  <2>5. CASE WriteCert(p) BY <2>5 DEF WriteCert, Returns, Ends
  <2> QED BY <2>1, <2>2, <2>3, <2>4, <2>5 DEF IdentityStep
<1> QED BY <1>1, <1>2

\* Every step keeps the types.
LEMMA NextTypes ==
    ASSUME TInv, [Next]_vars
    PROVE  TypeOK'
<1> USE IdentityAssumption, NoneAssumption, BridgeAssumption
        DEF TInv, TypeOK, DiscoveryTypeOK, discoveryVars, commandVars, filesVars, identityVars, Goto
<1>1. ASSUME NEW p \in Process, Launch(p) PROVE TypeOK'
  BY <1>1 DEF Launch
<1>2. ASSUME NEW p \in Process, Start(p) PROVE TypeOK'
  BY <1>2 DEF Start, Running, Serving
<1>3. ASSUME NEW p \in Process, Install(p) PROVE TypeOK'
  BY <1>3 DEF Install, Running, Serving, Up
<1>4. ASSUME NEW p \in Process, Die(p) PROVE TypeOK'
  BY <1>4 DEF Die, Ends, Vanish, Forget
<1>5. ASSUME NEW p \in Process, ListPeer(p) PROVE TypeOK'
  <2>1. hand[p].key \in Key /\ hand[p].addr \in Addr
    BY <1>5 DEF ListPeer, List, Peer
  <2>2. CASE hand[p].key = id[p]
    BY <1>5, <2>2 DEF ListPeer, List
  <2>3. CASE hand[p].key # id[p]
    <3>1. \E k \in Key \ {id[p]}, ad \in Addr : table' = [table EXCEPT ![p][k] = ad]
      BY <1>5, <2>1, <2>3 DEF ListPeer, List, Enter
    <3>2. (table \in [Process -> [Key -> Addr \cup {None}]])'
      BY <3>1
    <3>3. \A q \in Process : id[q] \in Key => table'[q][id[q]] = None
      BY <3>1
    <3> QED BY <1>5, <3>2, <3>3 DEF ListPeer, List
  <2> QED BY <2>2, <2>3
<1>6. ASSUME NEW p \in Process, UseTable(p) PROVE TypeOK'
  BY <1>6 DEF UseTable, Listed, Command, Running, Serving, Up
<1>7. ASSUME NEW p \in Process, Grant(p) PROVE TypeOK'
  BY <1>7 DEF Grant, Running, Serving, Up, Stages
<1>8. ASSUME NEW p \in Process, Conclude(p) PROVE TypeOK'
  BY <1>8 DEF Conclude, Finished, Running, Serving, Up, Stages
<1>9. ASSUME NEW p \in Process, Deliver(p) PROVE TypeOK'
  BY <1>9 DEF Deliver, Running, Serving, Up, Stages
<1>10. ASSUME NEW p \in Process, CommandEnds(p) PROVE TypeOK'
  BY <1>10 DEF CommandEnds, Finished, Running, Serving, Up
<1>11. ASSUME NEW p \in Process, NEW q \in Process, HearOf(p, q) PROVE TypeOK'
  BY <1>11 DEF HearOf, Hear, Record, Peer, Stages, Running
<1>12. ASSUME NEW p \in Process, NEW q \in Process, PairWith(p, q) PROVE TypeOK'
  BY <1>12 DEF PairWith, Command, Enter, Record, Peer, Stages, Running, Serving, Up
<1>13. ASSUME NEW d \in Dir, LosePower(d) PROVE TypeOK'
  <2>1. keyFile' \in [Dir -> Key \cup {None, Torn}] /\ (unflushed \subseteq Dir /\ upset \subseteq Dir)'
    BY <1>13 DEF LosePower, PowerLoss
  <2> QED BY <1>13, <2>1 DEF LosePower, PowerLoss, Vanish, Forget
<1>14. ASSUME NEW d \in Dir, Sync(d) PROVE TypeOK'
  BY <1>14 DEF Sync, Flush
<1>15. CASE UNCHANGED vars
  BY <1>15 DEF vars
<1> QED
  BY <1>1, <1>2, <1>3, <1>4, <1>5, <1>6, <1>7, <1>8, <1>9, <1>10, <1>11, <1>12, <1>13,
     <1>14, <1>15, IdentityTypes DEF Next

\* Every step leaves every process what its place needs.
LEMMA NextStages ==
    ASSUME TInv, [Next]_vars
    PROVE  Stages'
<1> USE IdentityAssumption, NoneAssumption, BridgeAssumption
        DEF TInv, TypeOK, DiscoveryTypeOK, Stages, discoveryVars, commandVars, filesVars,
            identityVars, Goto, Running, Serving, Up
<1>1. ASSUME NEW p \in Process, Launch(p) PROVE Stages'
  BY <1>1 DEF Launch
<1>2. ASSUME NEW p \in Process, Start(p) PROVE Stages'
  BY <1>2 DEF Start
<1>3. ASSUME NEW p \in Process, Install(p) PROVE Stages'
  BY <1>3 DEF Install
<1>4. ASSUME NEW p \in Process, Die(p) PROVE Stages'
  BY <1>4 DEF Die, Ends, Vanish, Forget
<1>5. ASSUME NEW p \in Process, ListPeer(p) PROVE Stages'
  BY <1>5 DEF ListPeer, List, Enter, Peer
<1>6. ASSUME NEW p \in Process, UseTable(p) PROVE Stages'
  BY <1>6 DEF UseTable, Listed, Command
<1>7. ASSUME NEW p \in Process, Grant(p) PROVE Stages'
  BY <1>7 DEF Grant
<1>8. ASSUME NEW p \in Process, Conclude(p) PROVE Stages'
  BY <1>8 DEF Conclude, Finished
<1>9. ASSUME NEW p \in Process, Deliver(p) PROVE Stages'
  BY <1>9 DEF Deliver
<1>10. ASSUME NEW p \in Process, CommandEnds(p) PROVE Stages'
  BY <1>10 DEF CommandEnds, Finished
<1>11. ASSUME NEW p \in Process, NEW q \in Process, HearOf(p, q) PROVE Stages'
  BY <1>11 DEF HearOf, Hear
<1>12. ASSUME NEW p \in Process, NEW q \in Process, PairWith(p, q) PROVE Stages'
  BY <1>12 DEF PairWith, Command, Enter, Record, Peer
<1>13. ASSUME NEW d \in Dir, LosePower(d) PROVE Stages'
  BY <1>13 DEF LosePower, PowerLoss, Vanish, Forget
<1>14. ASSUME NEW d \in Dir, Sync(d) PROVE Stages'
  BY <1>14 DEF Sync, Flush
<1>15. CASE UNCHANGED vars
  BY <1>15 DEF vars
<1> QED
  BY <1>1, <1>2, <1>3, <1>4, <1>5, <1>6, <1>7, <1>8, <1>9, <1>10, <1>11, <1>12, <1>13,
     <1>14, <1>15, IdentityStages DEF Next

\* Every state has the right types, and processes have what their place needs.
THEOREM BridgeTypes == Spec => []TypeOK
<1>1. TInv /\ [Next]_vars => TInv' BY NextTypes, NextStages DEF TInv
<1> QED BY InitTInv, <1>1, PTL DEF Spec, TInv

-----------------------------------------------------------------------------
(* Identities *)

\* While nothing has upset directory d, the key file holds the one identity in
\* use, and one process at most is creating one, which nobody uses before.
Kept ==
    \A d \in Dir \ upset :
        /\ \A k \in used[d] : keyFile[d] = k
        /\ \A p \in Process : dir[p] = d =>
              /\ pc[p] \in {"generate", "open", "write"} => used[d] = {} /\ keyFile[d] \notin Key
              /\ pc[p] = "cert" => keyFile[d] = id[p]
              /\ \A q \in Process : dir[q] = d /\ Creating(p) /\ Creating(q) => p = q

\* LoadOrCreate keeps the identity of a directory, or upsets it.
LEMMA IdentityKeepsKept ==
    ASSUME TInv, Kept, NEW p \in Process, LoadIdentity(p)
    PROVE  Kept'
<1> USE IdentityAssumption, NoneAssumption
        DEF TInv, TypeOK, Kept, Creating, filesVars, Goto
<1>1. CASE Load(p) BY <1>1 DEF Load, Returns
<1>2. CASE Generate(p) BY <1>2 DEF Generate
<1>3. CASE OpenKey(p) BY <1>3 DEF OpenKey, Ends
<1>4. CASE WriteKey(p) BY <1>4 DEF WriteKey, Ends
<1>5. CASE WriteCert(p) BY <1>5 DEF WriteCert, Returns, Ends
<1> QED BY <1>1, <1>2, <1>3, <1>4, <1>5 DEF LoadIdentity, IdentityStep

\* Nothing else creates identities or touches their files, but a power failure.
LEMMA NextKept ==
    ASSUME TInv, Kept, [Next]_vars
    PROVE  Kept'
<1> USE IdentityAssumption DEF TInv, TypeOK, Goto, filesVars, identityVars
<1>1. ASSUME UNCHANGED <<keyFile, used, upset>>,
             \A p \in Process : Creating(p)' => pc'[p] = pc[p] /\ id'[p] = id[p]
      PROVE  Kept'
  BY <1>1 DEF Kept, Creating
<1>2. ASSUME NEW p \in Process,
             \/ Launch(p) \/ Start(p) \/ Install(p) \/ Die(p) \/ ListPeer(p) \/ UseTable(p)
             \/ Grant(p) \/ Conclude(p) \/ Deliver(p) \/ CommandEnds(p)
             \/ \E q \in Process : HearOf(p, q) \/ PairWith(p, q)
      PROVE  Kept'
  <2>1. UNCHANGED <<keyFile, used, upset>>
    BY <1>2 DEF Launch, Start, Install, Die, Ends, ListPeer, UseTable, Grant, Conclude, Deliver,
                CommandEnds, HearOf, PairWith
  <2>2. \A r \in Process : Creating(r)' => pc'[r] = pc[r] /\ id'[r] = id[r]
    BY <1>2 DEF Launch, Start, Install, Die, Ends, ListPeer, UseTable, Grant, Conclude, Deliver,
                CommandEnds, HearOf, PairWith, Command, Finished, Creating
  <2> QED BY <1>1, <2>1, <2>2
<1>3. ASSUME NEW d \in Dir, LosePower(d) PROVE Kept'
  BY <1>3 DEF LosePower, PowerLoss, Kept, Creating
<1>4. ASSUME NEW d \in Dir, Sync(d) PROVE Kept'
  BY <1>1, <1>4 DEF Sync, Flush
<1>5. CASE UNCHANGED vars
  BY <1>1, <1>5 DEF vars
<1> QED BY <1>2, <1>3, <1>4, <1>5, IdentityKeepsKept DEF Next

\* LoadOrCreate returns one identity for a directory that nothing has upset.
THEOREM OneIdentity == Spec => []IdentityKept
<1>1. Init => Kept
  BY IdentityAssumption DEF Init, IdentityInit, Kept, Creating
<1>2. TInv /\ [Next]_vars => TInv' BY NextTypes, NextStages DEF TInv
<1>3. TInv /\ Kept /\ [Next]_vars => Kept' BY NextKept
<1>4. ASSUME Kept, NEW d \in Dir \ upset PROVE Cardinality(used[d]) <= 1
  <2>1. used[d] \subseteq {keyFile[d]} BY <1>4 DEF Kept
  <2>2. IsFiniteSet({keyFile[d]}) /\ Cardinality({keyFile[d]}) = 1 BY FS_Singleton
  <2> QED BY <2>1, <2>2, FS_Subset, FS_CardinalityType
<1>5. Kept => IdentityKept BY <1>4 DEF IdentityKept
<1> QED BY InitTInv, <1>1, <1>2, <1>3, <1>5, PTL DEF Spec

-----------------------------------------------------------------------------
(* Pairing *)

\* Key k is around in directory d.
Has(d, k) ==
    \/ k \in used[d] \/ keyFile[d] = k
    \/ \E p \in Process : dir[p] = d /\ id[p] = k

\* A key is around in one directory.
Owned == \A k \in Key, d, e \in Dir : Has(d, k) /\ Has(e, k) => d = e

\* A process runs with an identity that is in use; whoever has answered a Pair
\* has recorded the caller; and pairs that have been reported are recorded.
Recorded(j, k) ==
    \E d, e \in Dir : /\ j \in used[d] /\ k \in used[e]
                      /\ k \in trust[d] /\ j \in trust[e]

Known ==
    /\ \A p \in Process : pc[p] \in Running => id[p] \in used[dir[p]]
    /\ \A p \in Process : pc[p] = "confirm" =>
          \E e \in Dir : met[p] \in used[e] /\ id[p] \in trust[e]
    /\ \A j, k \in Key : <<j, k>> \in paired => Recorded(j, k)

\* LoadOrCreate spreads no key to another directory, as Generate takes a new one.
LEMMA IdentityKeepsOwned ==
    ASSUME TInv, Owned, NEW p \in Process, LoadIdentity(p)
    PROVE  Owned'
<1> USE IdentityAssumption, NoneAssumption DEF TInv, TypeOK, filesVars, Goto
<1>1. ASSUME \A k \in Key, d \in Dir : Has(d, k)' => Has(d, k)
      PROVE  Owned'
  BY <1>1 DEF Owned
<1>2. CASE Load(p) BY <1>1, <1>2 DEF Load, Returns, Has
<1>3. CASE Generate(p) BY <1>3 DEF Generate, Owned, Has
<1>4. CASE OpenKey(p) BY <1>1, <1>4 DEF OpenKey, Ends, Has
<1>5. CASE WriteKey(p) BY <1>1, <1>5 DEF WriteKey, Ends, Has
<1>6. CASE WriteCert(p) BY <1>1, <1>6 DEF WriteCert, Returns, Ends, Has
<1> QED BY <1>2, <1>3, <1>4, <1>5, <1>6 DEF LoadIdentity, IdentityStep

\* No other step puts a key anywhere.
LEMMA NextOwned ==
    ASSUME TInv, Owned, [Next]_vars
    PROVE  Owned'
<1> USE IdentityAssumption, NoneAssumption DEF TInv, TypeOK, Goto, filesVars, identityVars
<1>1. ASSUME UNCHANGED used, \A d \in Dir : keyFile'[d] \in {keyFile[d], Torn},
             \A p \in Process : id'[p] \in {id[p], None}
      PROVE  Owned'
  BY <1>1 DEF Owned, Has
<1>2. ASSUME NEW p \in Process,
             \/ Launch(p) \/ Start(p) \/ Install(p) \/ Die(p) \/ ListPeer(p) \/ UseTable(p)
             \/ Grant(p) \/ Conclude(p) \/ Deliver(p) \/ CommandEnds(p)
             \/ \E q \in Process : HearOf(p, q) \/ PairWith(p, q)
      PROVE  Owned'
  BY <1>1, <1>2 DEF Launch, Start, Install, Die, Ends, ListPeer, UseTable, Grant, Conclude,
                    Deliver, CommandEnds, HearOf, PairWith
<1>3. ASSUME NEW d \in Dir, LosePower(d) PROVE Owned'
  BY <1>1, <1>3 DEF LosePower, PowerLoss
<1>4. ASSUME NEW d \in Dir, Sync(d) PROVE Owned'
  BY <1>1, <1>4 DEF Sync, Flush
<1>5. CASE UNCHANGED vars
  BY <1>1, <1>5 DEF vars
<1> QED BY <1>2, <1>3, <1>4, <1>5, IdentityKeepsOwned DEF Next

\* Identities in use stay in use, and trust is never withdrawn.
LEMMA Grows ==
    ASSUME TInv, [Next]_vars, NEW d \in Dir
    PROVE  used[d] \subseteq used'[d] /\ trust[d] \subseteq trust'[d]
<1> USE IdentityAssumption DEF TInv, TypeOK, identityVars
<1>1. ASSUME NEW p \in Process, LoadIdentity(p)
      PROVE  used[d] \subseteq used'[d] /\ trust[d] \subseteq trust'[d]
  BY <1>1 DEF LoadIdentity, IdentityStep, Load, Generate, OpenKey, WriteKey, WriteCert, Returns, Ends
<1>2. ASSUME NEW p \in Process,
             \/ Launch(p) \/ Start(p) \/ Install(p) \/ Die(p) \/ ListPeer(p) \/ UseTable(p)
             \/ Grant(p) \/ Conclude(p) \/ Deliver(p) \/ CommandEnds(p)
             \/ \E q \in Process : HearOf(p, q) \/ PairWith(p, q)
      PROVE  used[d] \subseteq used'[d] /\ trust[d] \subseteq trust'[d]
  BY <1>2 DEF Launch, Start, Install, Die, Ends, Vanish, ListPeer, UseTable, Grant, Conclude,
              Deliver, CommandEnds, HearOf, PairWith
<1>3. ASSUME NEW e \in Dir, LosePower(e) \/ Sync(e)
      PROVE  used[d] \subseteq used'[d] /\ trust[d] \subseteq trust'[d]
  BY <1>3 DEF LosePower, PowerLoss, Vanish, Sync, Flush
<1>4. CASE UNCHANGED vars BY <1>4 DEF vars
<1> QED BY <1>1, <1>2, <1>3, <1>4 DEF Next

\* Whoever runs uses an identity in use, also after any step.
LEMMA NextRuns ==
    ASSUME TInv, Known, [Next]_vars, NEW p \in Process, pc'[p] \in Running
    PROVE  id'[p] \in used'[dir[p]]
<1> USE IdentityAssumption DEF TInv, TypeOK, identityVars, Goto, Running, Serving, Up
<1>1. ASSUME NEW q \in Process, LoadIdentity(q) PROVE id'[p] \in used'[dir[p]]
  <2>1. CASE p = q
    BY <1>1, <2>1 DEF LoadIdentity, IdentityStep, Load, Generate, OpenKey, WriteKey, WriteCert,
                      Returns, Ends
  <2>2. CASE p # q
    <3>1. pc'[p] = pc[p] /\ id'[p] = id[p]
      BY <1>1, <2>2 DEF LoadIdentity, IdentityStep, Load, Generate, OpenKey, WriteKey, WriteCert,
                        Returns, Ends
    <3> QED BY <3>1, Grows, dir[p] \in Dir DEF Known
  <2> QED BY <2>1, <2>2
<1>2. ASSUME NEW q \in Process,
             \/ Launch(q) \/ Start(q) \/ Install(q) \/ Die(q) \/ ListPeer(q) \/ UseTable(q)
             \/ Grant(q) \/ Conclude(q) \/ Deliver(q) \/ CommandEnds(q)
             \/ \E r \in Process : HearOf(q, r) \/ PairWith(q, r)
      PROVE  id'[p] \in used'[dir[p]]
  <2>1. pc[p] \in Running /\ id'[p] = id[p]
    BY <1>2 DEF Launch, Start, Install, Die, Ends, ListPeer, UseTable, Grant, Conclude,
                Deliver, CommandEnds, Finished, Command, HearOf, PairWith
  <2> QED BY <2>1, Grows, dir[p] \in Dir DEF Known
<1>3. ASSUME NEW d \in Dir, LosePower(d) \/ Sync(d) PROVE id'[p] \in used'[dir[p]]
  BY <1>3 DEF LosePower, PowerLoss, Sync, Flush, Known
<1>4. CASE UNCHANGED vars BY <1>4 DEF vars, Known
<1> QED BY <1>1, <1>2, <1>3, <1>4 DEF Next

\* A process awaits confirmation after Grant only, and keeps what it has until then.
LEMMA NextMet ==
    ASSUME TInv, Known, [Next]_vars, NEW p \in Process, pc'[p] = "confirm"
    PROVE  \E e \in Dir : met'[p] \in used'[e] /\ id'[p] \in trust'[e]
<1> USE IdentityAssumption DEF TInv, TypeOK, identityVars, commandVars, Goto
<1>1. CASE Grant(p)
  <2>1. PICK x \in Process : /\ pc[x] \in Up
                             /\ trust' = [trust EXCEPT ![dir[x]] = @ \cup {id[p]}]
                             /\ met' = [met EXCEPT ![p] = id[x]]
    BY <1>1 DEF Grant
  <2>2. id[x] \in used[dir[x]] /\ dir[x] \in Dir
    BY <2>1 DEF Known, Running, Serving
  <2> QED BY <1>1, <2>1, <2>2 DEF Grant
<1>2. CASE ~Grant(p)
  <2>1. pc[p] = "confirm" /\ met'[p] = met[p] /\ id'[p] = id[p]
    <3>1. ASSUME NEW q \in Process, LoadIdentity(q)
          PROVE  pc[p] = "confirm" /\ met'[p] = met[p] /\ id'[p] = id[p]
      BY <3>1 DEF LoadIdentity, IdentityStep, Load, Generate, OpenKey, WriteKey, WriteCert,
                  Returns, Ends
    <3>2. ASSUME NEW q \in Process,
                 \/ Launch(q) \/ Start(q) \/ Install(q) \/ Die(q) \/ ListPeer(q) \/ UseTable(q)
                 \/ Grant(q) \/ Conclude(q) \/ Deliver(q) \/ CommandEnds(q)
                 \/ \E r \in Process : HearOf(q, r) \/ PairWith(q, r)
          PROVE  pc[p] = "confirm" /\ met'[p] = met[p] /\ id'[p] = id[p]
      BY <1>2, <3>2 DEF Launch, Start, Install, Die, Ends, Vanish, ListPeer, UseTable, Grant,
                        Conclude, Deliver, CommandEnds, Finished, Command, HearOf, PairWith
    <3>3. ASSUME NEW d \in Dir, LosePower(d) \/ Sync(d)
          PROVE  pc[p] = "confirm" /\ met'[p] = met[p] /\ id'[p] = id[p]
      BY <3>3 DEF LosePower, PowerLoss, Vanish, Sync, Flush
    <3>4. CASE UNCHANGED vars BY <3>4 DEF vars
    <3> QED BY <3>1, <3>2, <3>3, <3>4 DEF Next
  <2> QED BY <2>1, Grows DEF Known
<1> QED BY <1>1, <1>2

\* Only Conclude reports a pair, and it records it first.
LEMMA NextRecorded ==
    ASSUME TInv, Known, [Next]_vars, NEW j \in Key, NEW k \in Key, <<j, k>> \in paired'
    PROVE  Recorded(j, k)'
<1>1. ASSUME NEW p \in Process, Conclude(p), <<j, k>> = <<id[p], met[p]>>
      PROVE  Recorded(j, k)'
  <2>1. PICK e \in Dir : met[p] \in used[e] /\ id[p] \in trust[e]
    BY <1>1 DEF Conclude, Known
  <2>2. id[p] \in used[dir[p]] /\ dir[p] \in Dir
    BY <1>1, IdentityAssumption DEF Conclude, Known, Running, Serving, Up
  <2>3. met[p] \in trust'[dir[p]] /\ used' = used
    BY <1>1, <2>2 DEF Conclude, TInv, TypeOK
  <2> QED BY <1>1, <2>1, <2>2, <2>3, Grows DEF Recorded
<1>2. CASE <<j, k>> \in paired
  BY <1>2, Grows DEF Known, Recorded
<1>3. CASE <<j, k>> \notin paired
  <2>1. \E p \in Process : Conclude(p) /\ <<j, k>> = <<id[p], met[p]>>
    BY <1>3 DEF Next, vars, Launch, LoadIdentity, Start, Install, Die, Vanish, ListPeer, UseTable,
                Grant, Conclude, Deliver, CommandEnds, HearOf, PairWith, LosePower, Sync
  <2> QED BY <1>1, <2>1
<1> QED BY <1>2, <1>3

\* Devices that have paired know each other whenever they run again.
THEOREM PairsStayKnown == Spec => []PairedKnown
<1>1. Init => Kept /\ Owned /\ Known
  BY IdentityAssumption, NoneAssumption
     DEF Init, IdentityInit, Kept, Creating, Owned, Has, Known, Running, Serving, Up
<1>2. TInv /\ [Next]_vars => TInv' BY NextTypes, NextStages DEF TInv
<1>3. TInv /\ Kept /\ [Next]_vars => Kept' BY NextKept
<1>4. TInv /\ Owned /\ [Next]_vars => Owned' BY NextOwned
<1>5. TInv /\ Known /\ [Next]_vars => Known'
  BY NextRuns, NextMet, NextRecorded DEF Known
<1>6. ASSUME TInv, Kept, Owned, Known PROVE PairedKnown
  <2> SUFFICES ASSUME NEW p \in Process, NEW q \in Process,
                      pc[p] \in Running, pc[q] \in Running,
                      dir[p] \notin upset, dir[q] \notin upset,
                      NEW j \in used[dir[p]], NEW k \in used[dir[q]], <<j, k>> \in paired
               PROVE  id[q] \in trust[dir[p]] /\ id[p] \in trust[dir[q]]
    BY DEF PairedKnown
  <2>1. dir[p] \in Dir /\ dir[q] \in Dir /\ j \in Key /\ k \in Key
    BY <1>6, IdentityAssumption DEF TInv, TypeOK
  <2>2. id[p] = j /\ id[q] = k
    BY <1>6, <2>1 DEF Kept, Known
  <2>3. PICK d \in Dir, e \in Dir : /\ j \in used[d] /\ k \in used[e]
                                   /\ k \in trust[d] /\ j \in trust[e]
    BY <1>6, <2>1 DEF Known, Recorded
  <2>4. d = dir[p] /\ e = dir[q]
    BY <1>6, <2>1, <2>3 DEF Owned, Has
  <2> QED BY <2>2, <2>3, <2>4
<1> QED BY InitTInv, <1>1, <1>2, <1>3, <1>4, <1>5, <1>6, PTL DEF Spec

\* A Pair that awaits confirmation has met a device that is trusted or pinned.
Expected ==
    \A p \in Process : pc[p] = "confirm" => met[p] \in trust[dir[p]] \cup {order[p].key}

\* The device met was trusted or pinned when it answered, and still is.
LEMMA NextExpected ==
    ASSUME TInv, Expected, [Next]_vars
    PROVE  Expected'
<1> USE IdentityAssumption DEF TInv, TypeOK, identityVars, commandVars, Goto
<1> SUFFICES ASSUME NEW p \in Process, pc'[p] = "confirm"
             PROVE  met'[p] \in trust'[dir[p]] \cup {order'[p].key}
  BY DEF Expected
<1>1. trust[dir[p]] \subseteq trust'[dir[p]] BY Grows
<1>2. CASE Grant(p) BY <1>1, <1>2 DEF Grant, Accepts
<1>3. CASE ~Grant(p)
  <2>1. ASSUME NEW q \in Process, LoadIdentity(q)
        PROVE  pc[p] = "confirm" /\ met'[p] = met[p] /\ order'[p] = order[p]
    BY <2>1 DEF LoadIdentity, IdentityStep, Load, Generate, OpenKey, WriteKey, WriteCert,
                Returns, Ends
  <2>2. ASSUME NEW q \in Process,
               \/ Launch(q) \/ Start(q) \/ Install(q) \/ Die(q) \/ ListPeer(q) \/ UseTable(q)
               \/ Grant(q) \/ Conclude(q) \/ Deliver(q) \/ CommandEnds(q)
               \/ \E r \in Process : HearOf(q, r) \/ PairWith(q, r)
        PROVE  pc[p] = "confirm" /\ met'[p] = met[p] /\ order'[p] = order[p]
    BY <1>3, <2>2 DEF Launch, Start, Install, Die, Ends, Vanish, ListPeer, UseTable, Grant,
                      Conclude, Deliver, CommandEnds, Finished, Command, HearOf, PairWith
  <2>3. ASSUME NEW d \in Dir, LosePower(d) \/ Sync(d)
        PROVE  pc[p] = "confirm" /\ met'[p] = met[p] /\ order'[p] = order[p]
    BY <2>3 DEF LosePower, PowerLoss, Vanish, Sync, Flush
  <2>4. CASE UNCHANGED vars BY <2>4, <1>1 DEF vars, Expected
  <2> QED BY <1>1, <2>1, <2>2, <2>3, <2>4 DEF Next, Expected
<1> QED BY <1>2, <1>3

\* A Pair that succeeds records no device but the one whose key it was given.
THEOREM PairsAsAsked == Spec => NoStrangerPaired
<1>1. Init => Expected
  BY DEF Init, IdentityInit, Expected
<1>2. TInv /\ [Next]_vars => TInv' BY NextTypes, NextStages DEF TInv
<1>3. TInv /\ Expected /\ [Next]_vars => Expected' BY NextExpected
<1>4. ASSUME TInv, Expected, [Next]_vars, NEW p \in Process, pc[p] = "confirm", pc'[p] = "up"
      PROVE  trust'[dir[p]] \subseteq trust[dir[p]] \cup {order[p].key}
  <2>1. CASE trust' = trust BY <2>1
  <2>2. CASE trust' # trust
    <3>1. \E q \in Process : Grant(q) \/ Conclude(q)
      BY <1>4, <2>2 DEF Next, vars, Launch, LoadIdentity, Start, Install, Die, Vanish, ListPeer,
                        UseTable, Deliver, CommandEnds, HearOf, PairWith, LosePower, Sync
    <3>2. Conclude(p)
      BY <1>4, <3>1 DEF Grant, Conclude, Finished, Goto, TInv, TypeOK
    <3> QED BY <1>4, <3>2, IdentityAssumption DEF Conclude, Expected, TInv, TypeOK
  <2> QED BY <2>1, <2>2
<1>5. TInv /\ Expected /\ [Next]_vars =>
        [\A p \in Process : pc[p] = "confirm" /\ pc'[p] = "up" =>
             trust'[dir[p]] \subseteq trust[dir[p]] \cup {order[p].key}]_vars
  BY <1>4
<1> QED BY InitTInv, <1>1, <1>2, <1>3, <1>5, PTL DEF Spec, NoStrangerPaired

=============================================================================
