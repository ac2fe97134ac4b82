------------------------- MODULE PortLibraryProofs -------------------------
(***************************************************************************)
(* Proofs about the other components of MCPortLibrary, for any nodes,      *)
(* requests, pages, lists, entries and threads, and about the library as a *)
(* whole: the invariants of all of them hold at once, whichever runs, and  *)
(* the lists implement what they promise.                                  *)
(***************************************************************************)
EXTENDS ObjectCacheProofs, Integers

-----------------------------------------------------------------------------
(* The information tree.                                                   *)

\* The records of requests.
InfoCall ==
  [pc : {"idle", "type", "written", "handle", "text", "seqfile", "show", "out"},
   rc : {"none", "failed", "ok", "ENOMEM"},
   n : Nodes \cup {NoNode}, room : 0 .. Info!NoRoom,
   oldidx : 0 .. MaxText, total : 0 .. MaxText,
   has : SUBSET {"data", "dbh", "cookie"}]

\* The records of nodes.
InfoNode == [parent : Nodes \cup {NoNode}, type : Types, mode : BOOLEAN]

\* Nodes and requests are such records.
InfoShape ==
  /\ node \in [Nodes -> InfoNode \cup {Info!None}]
  /\ os_private \subseteq Nodes /\ removing \subseteq Nodes
  /\ req \in [Threads -> InfoCall]

\* A node with an oid is the core's, and so is one whose oid is being removed.
OidsExist ==
  /\ \A n \in os_private \cup removing : Info!Exists(n)
  /\ os_private \cap removing = {}

\* A handler entered while the oid was there, and its removal waits for it.
HandlersKnown ==
  \A t \in Threads : req[t].pc # "idle" => req[t].n \in os_private \cup removing

\* Nothing is told before the end, and a request for a number or a string has
\* no length to tell.
NothingToldYet ==
  \A t \in Threads :
    /\ req[t].pc # "idle" => req[t].oldidx = 0
    /\ req[t].pc \in {"type", "written"} =>
         req[t].total = 0 /\ req[t].room = Info!NoRoom

\* kfio_sysctl_text_proc is the handler of a text and of a sequence.
TextsAreTexts ==
  \A t \in Threads :
    req[t].pc = "handle" => node[req[t].n].type \in {"text", "seqfile"}

\* What a request may have taken where it is.
TakenInTurn ==
  \A t \in Threads :
    /\ req[t].pc \in {"type", "written", "handle"} => req[t].has \subseteq {"data"}
    /\ req[t].pc \in {"text", "seqfile", "out"} => req[t].has \subseteq {"data", "dbh"}

\* The inductive invariant of the information tree.
InfoInv ==
  /\ InfoShape
  /\ OidsExist
  /\ HandlersKnown
  /\ NothingToldYet
  /\ TextsAreTexts
  /\ TakenInTurn
  /\ Info!SizeTold
  /\ Info!GivesBackAll

\* What a node that is the core's is made of.
LEMMA ExistingNode ==
  ASSUME InfoShape, NEW x \in Nodes, Info!Exists(x)
  PROVE  node[x] \in InfoNode
BY DEF InfoShape, Info!Exists

\* The record of a thread that asks for nothing is one of a call.
LEMMA NoRequestIsCall == Info!NoRequest \in InfoCall
BY LibraryAssumption DEF InfoCall, Info!NoRequest, Info!NoRoom

\* There is no node and no request to begin with.
LEMMA InfoInit == Info!Init => InfoInv
<1>1. SUFFICES ASSUME Info!Init PROVE InfoInv
  OBVIOUS
<1>2. InfoShape
  BY <1>1, NoRequestIsCall DEF InfoShape, Info!Init
<1>4. \A t \in Threads : req[t] = Info!NoRequest
  BY <1>1 DEF Info!Init
<1>5. OidsExist
  BY <1>1 DEF OidsExist, Info!Init
<1>6. Info!SizeTold /\ Info!GivesBackAll
  BY <1>4 DEF Info!SizeTold, Info!GivesBackAll, Info!NoRequest
<1> QED
  BY <1>2, <1>4, <1>5, <1>6
     DEF InfoInv, HandlersKnown, NothingToldYet, TextsAreTexts, TakenInTurn,
         Info!NoRequest

\* kfio_info_os_create_node.
LEMMA CreateInv ==
  ASSUME InfoInv, NEW x \in Nodes, NEW p \in Nodes \cup {NoNode},
         NEW type \in Types, NEW mode \in BOOLEAN, Info!Create(x, p, type, mode)
  PROVE  InfoInv'
<1> DEFINE new == [parent |-> p, type |-> type, mode |-> mode]
<1>1. new \in InfoNode
  BY DEF InfoNode
<1>2. new # Info!None
  <2>1. "parent" \in DOMAIN new /\ "parent" \notin DOMAIN Info!None
    BY DEF Info!None
  <2> QED
    BY <2>1
<1> HIDE DEF new
<1>3. /\ node' = [node EXCEPT ![x] = new] /\ node[x] = Info!None
      /\ os_private' \subseteq os_private \cup {x} /\ os_private \subseteq os_private'
      /\ removing' = removing /\ req' = req
  BY DEF Info!Create, Info!Exists, new
<1>4. x \notin os_private /\ x \notin removing
  BY <1>3 DEF InfoInv, OidsExist, Info!Exists
<1>5. InfoShape'
  BY <1>1, <1>3 DEF InfoInv, InfoShape
<1>6. \A y \in Nodes : node'[y] = IF y = x THEN new ELSE node[y]
  BY <1>3 DEF InfoInv, InfoShape
<1>7. OidsExist'
  BY <1>2, <1>3, <1>4, <1>6 DEF InfoInv, InfoShape, OidsExist, Info!Exists
<1>8. /\ HandlersKnown' /\ NothingToldYet' /\ TakenInTurn'
      /\ Info!SizeTold' /\ Info!GivesBackAll'
  BY <1>3 DEF InfoInv, HandlersKnown, NothingToldYet, TakenInTurn, Info!SizeTold,
              Info!GivesBackAll
<1>9. TextsAreTexts'
  BY <1>3, <1>4, <1>6
     DEF InfoInv, InfoShape, TextsAreTexts, HandlersKnown
<1> QED
  BY <1>5, <1>7, <1>8, <1>9 DEF InfoInv

\* kfio_info_os_remove_node, up to where it waits for handlers.
LEMMA RemoveInv ==
  ASSUME InfoInv, NEW x \in Nodes, Info!Remove(x)
  PROVE  InfoInv'
<1>1. CASE x \in os_private
  <2>1. /\ os_private' = os_private \ {x} /\ removing' = removing \cup {x}
        /\ node' = node /\ req' = req
    BY <1>1 DEF Info!Remove
  <2> QED
    BY <2>1, <1>1
       DEF InfoInv, InfoShape, OidsExist, HandlersKnown, NothingToldYet,
           TextsAreTexts, TakenInTurn, Info!SizeTold, Info!GivesBackAll,
           Info!Exists
<1>2. CASE x \notin os_private
  <2>1. /\ node' = [node EXCEPT ![x] = Info!None] /\ x \notin removing
        /\ os_private' = os_private /\ removing' = removing /\ req' = req
    BY <1>2 DEF Info!Remove
  <2>2. \A y \in Nodes : y # x => node'[y] = node[y]
    BY <2>1 DEF InfoInv, InfoShape
  <2>3. InfoShape' /\ OidsExist'
    BY <2>1, <2>2, <1>2 DEF InfoInv, InfoShape, OidsExist, Info!Exists
  <2>4. TextsAreTexts'
    BY <2>1, <2>2, <1>2
       DEF InfoInv, InfoShape, TextsAreTexts, HandlersKnown
  <2> QED
    BY <2>1, <2>3, <2>4
       DEF InfoInv, HandlersKnown, NothingToldYet, TakenInTurn, Info!SizeTold,
           Info!GivesBackAll
<1> QED
  BY <1>1, <1>2

\* Its end: no handler is in the node, and none can have entered it since.
LEMMA RemoveEndsInv ==
  ASSUME InfoInv, NEW x \in Nodes, Info!RemoveEnds(x)
  PROVE  InfoInv'
<1>1. /\ x \in removing /\ removing' = removing \ {x}
      /\ node' = [node EXCEPT ![x] = Info!None]
      /\ os_private' = os_private /\ req' = req
      /\ \A t \in Threads : req[t].pc = "idle" \/ req[t].n # x
  BY DEF Info!RemoveEnds, Info!Drained
<1>2. \A y \in Nodes : y # x => node'[y] = node[y]
  BY <1>1 DEF InfoInv, InfoShape
<1>3. InfoShape' /\ OidsExist'
  BY <1>1, <1>2 DEF InfoInv, InfoShape, OidsExist, Info!Exists
<1>4. HandlersKnown'
  BY <1>1 DEF InfoInv, HandlersKnown
<1>5. TextsAreTexts'
  BY <1>1, <1>2 DEF InfoInv, InfoShape, TextsAreTexts, HandlersKnown
<1> QED
  BY <1>1, <1>3, <1>4, <1>5
     DEF InfoInv, NothingToldYet, TakenInTurn, Info!SizeTold, Info!GivesBackAll

\* What is asked of a request that a step of its thread leaves.
RequestHolds(r) ==
  /\ r \in InfoCall
  /\ r.pc # "idle" => r.n \in os_private \cup removing /\ r.oldidx = 0
  /\ r.pc \in {"type", "written"} => r.total = 0 /\ r.room = Info!NoRoom
  /\ r.pc = "handle" => node[r.n].type \in {"text", "seqfile"}
  /\ r.pc = "idle" => r.has = {}
  /\ r.pc \in {"type", "written", "handle"} => r.has \subseteq {"data"}
  /\ r.pc \in {"text", "seqfile", "out"} => r.has \subseteq {"data", "dbh"}
  /\ r.pc = "idle" /\ r.rc \in {"ok", "ENOMEM"} =>
       /\ r.oldidx = r.total
       /\ r.rc = "ENOMEM" <=> r.room # Info!NoRoom /\ r.total > r.room

\* The invariant says of each request what RequestHolds asks of one.
LEMMA RequestsHold ==
  ASSUME InfoInv, NEW t \in Threads
  PROVE  RequestHolds(req[t])
BY DEF InfoInv, InfoShape, HandlersKnown, NothingToldYet, TextsAreTexts,
       TakenInTurn, Info!SizeTold, Info!GivesBackAll, RequestHolds

\* A step of one request leaves the tree and the others.
LEMMA BecomesInv ==
  ASSUME InfoInv, NEW t \in Threads, NEW r, RequestHolds(r), Info!Becomes(t, r)
  PROVE  InfoInv'
<1>1. /\ req' = [req EXCEPT ![t] = r] /\ node' = node
      /\ os_private' = os_private /\ removing' = removing
  BY DEF Info!Becomes
<1>2. \A u \in Threads : req'[u] = IF u = t THEN r ELSE req[u]
  BY <1>1 DEF InfoInv, InfoShape
<1>3. \A u \in Threads : RequestHolds(req'[u])
  BY <1>2, RequestsHold
<1>4. InfoShape' /\ OidsExist'
  BY <1>1, <1>3 DEF InfoInv, InfoShape, OidsExist, Info!Exists, RequestHolds
<1> HIDE <1>2
<1>5. HandlersKnown' /\ NothingToldYet' /\ TextsAreTexts' /\ TakenInTurn'
  BY <1>1, <1>3 DEF HandlersKnown, NothingToldYet, TextsAreTexts, TakenInTurn,
                    RequestHolds
<1>6. Info!GivesBackAll' /\ Info!SizeTold'
  BY <1>1, <1>3 DEF Info!GivesBackAll, Info!SizeTold, RequestHolds
<1> QED
  BY <1>4, <1>5, <1>6 DEF InfoInv

\* A request at its end, with nothing left to give back.
Over(r, rc) == [r EXCEPT !.pc = "idle", !.rc = rc, !.has = {}]

\* The end of a request that has nothing left to give back but its data.
LEMMA FinishGivesBack ==
  ASSUME NEW r \in InfoCall, r.has \subseteq {"data"}, NEW rc
  PROVE  Info!Finish(r, rc) = Over(r, rc)
<1>1. r.has \ {"data"} = {}
  OBVIOUS
<1> QED
  BY <1>1 DEF Info!Finish, InfoCall, Over

\* A request without its handle.
LEMMA WithoutHandle ==
  ASSUME NEW r \in InfoCall, r.has \subseteq {"data", "dbh"}
  PROVE  /\ Info!HandleFreed(r) \in InfoCall
         /\ Info!HandleFreed(r).has \subseteq {"data"}
         /\ \A rc : Over(Info!HandleFreed(r), rc) = Over(r, rc)
<1> DEFINE kept == r.has \ {"dbh"}
<1>1. kept \subseteq {"data"} /\ kept \in SUBSET {"data", "dbh", "cookie"}
  OBVIOUS
<1>2. Info!HandleFreed(r) = [r EXCEPT !.has = kept]
  BY DEF Info!HandleFreed
<1> HIDE DEF kept
<1> QED
  BY <1>1, <1>2 DEF InfoCall, Over

\* A request that fails, wherever it is, its handle freed.
LEMMA FailsInv ==
  ASSUME InfoInv, NEW t \in Threads, NEW r \in InfoCall,
         r.has \subseteq {"data"}, Info!Fails(t, r)
  PROVE  InfoInv'
<1>1. Info!Becomes(t, Over(r, "failed"))
  BY FinishGivesBack DEF Info!Fails
<1>2. RequestHolds(Over(r, "failed"))
  BY DEF RequestHolds, InfoCall, Over
<1> QED
  BY <1>1, <1>2, BecomesInv

\* A handler's node has an oid, or one that is being removed.
LEMMA HandlerNode ==
  ASSUME InfoInv, NEW t \in Threads, req[t].pc # "idle"
  PROVE  /\ req[t] \in InfoCall /\ req[t].n \in os_private \cup removing
         /\ req[t].n \in Nodes /\ Info!Exists(req[t].n)
BY DEF InfoInv, InfoShape, HandlersKnown, OidsExist

\* kfio_sysctl_type_proc.
LEMMA TypeProcInv ==
  ASSUME InfoInv, NEW t \in Threads,
         \/ \E x \in Nodes, long \in BOOLEAN : Info!TypeRequest(t, x, long)
         \/ Info!TypeRead(t) \/ Info!TypeWrite(t) \/ Info!TypeOut(t)
         \/ Info!TypeFails(t)
  PROVE  InfoInv'
<1>1. ASSUME NEW x \in Nodes, NEW long \in BOOLEAN, Info!TypeRequest(t, x, long)
      PROVE  InfoInv'
  <2> DEFINE has == IF node[x].type = "string" /\ long THEN {"data"} ELSE {}
             r == [Info!NoRequest EXCEPT !.pc = "type", !.n = x, !.has = has]
  <2>1. x \in os_private /\ Info!Becomes(t, r)
    BY <1>1 DEF Info!TypeRequest
  <2>2. has \in SUBSET {"data", "dbh", "cookie"} /\ has \subseteq {"data"}
    OBVIOUS
  <2> HIDE DEF has
  <2>3. r \in InfoCall
    BY <2>2, NoRequestIsCall DEF InfoCall
  <2>4. RequestHolds(r)
    BY <2>1, <2>2, <2>3 DEF RequestHolds, Info!NoRequest
  <2> QED
    BY <2>1, <2>4, BecomesInv
<1>2. CASE Info!TypeRead(t)
  <2>1. req[t].pc = "type" /\ Info!Becomes(t, Info!Finish(req[t], "ok"))
    BY <1>2 DEF Info!TypeRead
  <2>2. RequestHolds(req[t]) /\ req[t] \in InfoCall /\ req[t].has \subseteq {"data"}
    BY <2>1, RequestsHold DEF RequestHolds
  <2>3. Info!Becomes(t, Over(req[t], "ok"))
    BY <2>1, <2>2, FinishGivesBack
  <2>4. RequestHolds(Over(req[t], "ok"))
    BY <2>1, <2>2 DEF RequestHolds, InfoCall, Over
  <2> QED
    BY <2>3, <2>4, BecomesInv
<1>3. CASE Info!TypeWrite(t)
  <2>1. /\ req[t].pc = "type"
        /\ Info!Becomes(t, [req[t] EXCEPT !.pc = "written"])
    BY <1>3 DEF Info!TypeWrite
  <2>2. RequestHolds([req[t] EXCEPT !.pc = "written"])
    BY <2>1, RequestsHold DEF RequestHolds, InfoCall
  <2> QED
    BY <2>1, <2>2, BecomesInv
<1>4. CASE Info!TypeOut(t)
  <2>1. req[t].pc = "written" /\ Info!Becomes(t, Info!Finish(req[t], "ok"))
    BY <1>4 DEF Info!TypeOut
  <2>2. RequestHolds(req[t]) /\ req[t] \in InfoCall /\ req[t].has \subseteq {"data"}
    BY <2>1, RequestsHold DEF RequestHolds
  <2>3. Info!Becomes(t, Over(req[t], "ok"))
    BY <2>1, <2>2, FinishGivesBack
  <2>4. RequestHolds(Over(req[t], "ok"))
    BY <2>1, <2>2 DEF RequestHolds, InfoCall, Over
  <2> QED
    BY <2>3, <2>4, BecomesInv
<1>5. CASE Info!TypeFails(t)
  BY <1>5, FailsInv, RequestsHold DEF Info!TypeFails, RequestHolds
<1> QED
  BY <1>1, <1>2, <1>3, <1>4, <1>5

\* kfio_sysctl_text_proc, up to the core's handler.
LEMMA TextProcInv ==
  ASSUME InfoInv, NEW t \in Threads,
         \/ \E x \in Nodes, room \in 0 .. Info!NoRoom : Info!TextRequest(t, x, room)
         \/ Info!Handle(t) \/ Info!HandleFails(t)
         \/ Info!TextFails(t) \/ \E total \in 0 .. MaxText : Info!Text(t, total)
  PROVE  InfoInv'
<1>1. ASSUME NEW x \in Nodes, NEW room \in 0 .. Info!NoRoom,
             Info!TextRequest(t, x, room)
      PROVE  InfoInv'
  <2> DEFINE has == IF room = Info!NoRoom THEN {} ELSE {"data"}
             r == [Info!NoRequest EXCEPT !.pc = "handle", !.n = x,
                   !.room = room, !.has = has]
  <2>1. /\ x \in os_private /\ node[x].type \in {"text", "seqfile"}
        /\ Info!Becomes(t, r)
    BY <1>1 DEF Info!TextRequest
  <2>2. has \in SUBSET {"data", "dbh", "cookie"} /\ has \subseteq {"data"}
    OBVIOUS
  <2> HIDE DEF has
  <2>3. r \in InfoCall
    BY <2>2, NoRequestIsCall DEF InfoCall
  <2>4. RequestHolds(r)
    BY <2>1, <2>2, <2>3 DEF RequestHolds, Info!NoRequest
  <2> QED
    BY <2>1, <2>4, BecomesInv
<1>2. CASE Info!Handle(t)
  <2> DEFINE has == req[t].has \cup {"dbh"}
             place == node[req[t].n].type
             r == [req[t] EXCEPT !.pc = place, !.has = has]
  <2>1. req[t].pc = "handle" /\ Info!Becomes(t, r)
    BY <1>2 DEF Info!Handle
  <2>2. /\ req[t] \in InfoCall /\ has \in SUBSET {"data", "dbh", "cookie"}
        /\ place \in {"text", "seqfile"} /\ RequestHolds(req[t])
        /\ has \subseteq {"data", "dbh"}
    BY <2>1, RequestsHold DEF RequestHolds, InfoCall
  <2> HIDE DEF has, place
  <2>3. RequestHolds(r)
    BY <2>1, <2>2 DEF RequestHolds, InfoCall
  <2> QED
    BY <2>1, <2>3, BecomesInv
<1>3. CASE Info!HandleFails(t)
  BY <1>3, FailsInv, RequestsHold DEF Info!HandleFails, RequestHolds
<1>4. CASE Info!TextFails(t)
  BY <1>4, FailsInv, RequestsHold, WithoutHandle DEF Info!TextFails, RequestHolds
<1>5. ASSUME NEW total \in 0 .. MaxText, Info!Text(t, total)
      PROVE  InfoInv'
  <2>1. /\ req[t].pc = "text"
        /\ Info!Becomes(t, [req[t] EXCEPT !.pc = "out", !.total = total])
    BY <1>5 DEF Info!Text
  <2>2. RequestHolds([req[t] EXCEPT !.pc = "out", !.total = total])
    BY <2>1, RequestsHold DEF RequestHolds, InfoCall
  <2> QED
    BY <2>1, <2>2, BecomesInv
<1> QED
  BY <1>1, <1>2, <1>3, <1>4, <1>5

\* kfio_info_seqfile_handler.
LEMMA SequenceInv ==
  ASSUME InfoInv, NEW t \in Threads,
         \/ Info!SeqInit(t) \/ Info!SeqShow(t) \/ Info!SeqEnds(t)
         \/ Info!ShowFails(t)
  PROVE  InfoInv'
<1> DEFINE given == req[t].has \cup {"cookie"}
           left == req[t].has \ {"cookie"}
<1>1. /\ req[t] \in InfoCall /\ RequestHolds(req[t])
      /\ {given, left} \subseteq SUBSET {"data", "dbh", "cookie"}
      /\ left \subseteq {"data", "dbh"}
  BY RequestsHold DEF RequestHolds, InfoCall
<1>2. CASE Info!SeqInit(t)
  <2> DEFINE r == [req[t] EXCEPT !.pc = "show", !.has = given]
  <2>1. req[t].pc = "seqfile" /\ Info!Becomes(t, r)
    BY <1>2 DEF Info!SeqInit
  <2> HIDE DEF given, left
  <2>2. RequestHolds(r)
    BY <1>1, <2>1 DEF RequestHolds, InfoCall
  <2> QED
    BY <2>1, <2>2, BecomesInv
<1>3. CASE Info!SeqShow(t)
  <2> DEFINE r == [req[t] EXCEPT !.total = req[t].total + 1]
  <2>1. req[t].pc = "show" /\ req[t].total < MaxText /\ Info!Becomes(t, r)
    BY <1>3 DEF Info!SeqShow
  <2>2. req[t].total + 1 \in 0 .. MaxText
    BY <1>1, <2>1, LibraryAssumption DEF InfoCall
  <2>3. RequestHolds(r)
    BY <1>1, <2>1, <2>2 DEF RequestHolds, InfoCall
  <2> QED
    BY <2>1, <2>3, BecomesInv
<1>4. CASE Info!SeqEnds(t)
  <2> DEFINE r == [req[t] EXCEPT !.pc = "out", !.has = left]
  <2>1. req[t].pc = "show" /\ Info!Becomes(t, r)
    BY <1>1, <1>4 DEF Info!SeqEnds, Info!SeqStopped, InfoCall
  <2> HIDE DEF given, left
  <2>2. RequestHolds(r)
    BY <1>1, <2>1 DEF RequestHolds, InfoCall
  <2> QED
    BY <2>1, <2>2, BecomesInv
<1>5. CASE Info!ShowFails(t)
  <2>1. /\ Info!SeqStopped(req[t]) \in InfoCall
        /\ Info!SeqStopped(req[t]).has \subseteq {"data", "dbh"}
    BY <1>1 DEF Info!SeqStopped, InfoCall
  <2> QED
    BY <1>5, <2>1, WithoutHandle, FailsInv DEF Info!ShowFails
<1> QED
  BY <1>2, <1>3, <1>4, <1>5

\* kfio_info_data_size_valid, kfio_info_data_size_beyond_end and what follows
\* from them.
LEMMA OutInv ==
  ASSUME InfoInv, NEW t \in Threads, Info!Out(t) \/ Info!OutFails(t)
  PROVE  InfoInv'
<1>1. CASE Info!OutFails(t)
  BY <1>1, FailsInv, RequestsHold, WithoutHandle DEF Info!OutFails, RequestHolds
<1>2. CASE Info!Out(t)
  <2> DEFINE r == req[t]
             v == Info!Valid(r)
             w == Info!Beyond(r)
             whole == IF r.room = Info!NoRoom THEN "ok" ELSE "ENOMEM"
             Told(rc) == [r EXCEPT !.oldidx = r.total, !.pc = "idle",
                                   !.rc = rc, !.has = {}]
             Tells(n, rc) ==
               Info!Becomes(t, [Info!Finish(Info!HandleFreed(r), rc)
                                  EXCEPT !.oldidx = @ + n])
  <2>1. /\ r \in InfoCall /\ RequestHolds(r) /\ r.pc = "out" /\ r.oldidx = 0
        /\ r.room \in 0 .. MaxText + 1 /\ r.total \in 0 .. MaxText
        /\ r.has \subseteq {"data", "dbh"}
    BY <1>2, RequestsHold DEF RequestHolds, InfoCall, Info!Out, Info!NoRoom
  <2>2. ASSUME NEW n, r.oldidx + n = r.total, NEW rc
        PROVE  [Info!Finish(Info!HandleFreed(r), rc) EXCEPT !.oldidx = @ + n]
                 = Told(rc)
    <3>1. Info!Finish(Info!HandleFreed(r), rc) = Over(r, rc)
      BY <2>1, WithoutHandle, FinishGivesBack
    <3> HIDE DEF r
    <3>2. Over(r, rc).oldidx = r.oldidx
      BY <2>1 DEF InfoCall, Over
    <3>3. [Over(r, rc) EXCEPT !.oldidx = @ + n] = Told(rc)
      BY <2>1, <2>2, <3>2 DEF InfoCall, Over
    <3> QED
      BY <3>1, <3>3
  <2>3. /\ r.total <= Info!Size(r) => Tells(v, "ok")
        /\ r.total > Info!Size(r) => Tells(v + w, whole)
    BY <1>2, <2>1, LibraryAssumption DEF Info!Out, Info!Size, Info!NoRoom
  <2>4. CASE r.total <= Info!Size(r)
    <3>1. r.oldidx + v = r.total
      BY <2>1, <2>4, LibraryAssumption DEF Info!Valid, Info!Size, Info!NoRoom
    <3> DEFINE f == [Info!Finish(Info!HandleFreed(r), "ok") EXCEPT !.oldidx = @ + v]
    <3>2. Info!Becomes(t, f)
      BY <2>3, <2>4
    <3>3. f = Told("ok")
      BY <2>2, <3>1
    <3>4. Info!Becomes(t, Told("ok"))
      <4> HIDE DEF f
      <4> QED
        BY <3>2, <3>3
    <3>5. Told("ok") \in InfoCall
      BY <2>1 DEF InfoCall
    <3>6. r.room # Info!NoRoom => ~(r.total > r.room)
      BY <2>1, <2>4, LibraryAssumption DEF Info!Size, Info!NoRoom
    <3>7. RequestHolds(Told("ok"))
      BY <2>1, <3>5, <3>6 DEF RequestHolds, InfoCall
    <3> QED
      BY <3>4, <3>7, BecomesInv
  <2>5. CASE r.total > Info!Size(r)
    <3>1. r.oldidx + (v + w) = r.total
      BY <2>1, <2>5, LibraryAssumption
         DEF Info!Valid, Info!Beyond, Info!Size, Info!NoRoom
    <3> DEFINE f == [Info!Finish(Info!HandleFreed(r), whole)
                       EXCEPT !.oldidx = @ + (v + w)]
    <3>2. Info!Becomes(t, f)
      BY <2>3, <2>5
    <3>3. f = Told(whole)
      BY <2>2, <3>1
    <3>4. Info!Becomes(t, Told(whole))
      <4> HIDE DEF f
      <4> QED
        BY <3>2, <3>3
    <3>5. Told(whole) \in InfoCall
      BY <2>1 DEF InfoCall
    <3>6. r.room # Info!NoRoom => r.total > r.room
      BY <2>1, <2>5, LibraryAssumption DEF Info!Size, Info!NoRoom
    <3>7. RequestHolds(Told(whole))
      BY <2>1, <3>5, <3>6 DEF RequestHolds, InfoCall
    <3> QED
      BY <3>4, <3>7, BecomesInv
  <2>6. r.total \in Nat /\ Info!Size(r) \in Nat
    BY <2>1, LibraryAssumption DEF Info!Size, Info!NoRoom
  <2> QED
    BY <2>4, <2>5, <2>6
<1> QED
  BY <1>1, <1>2

\* Every step of the tree, the core's and a handler's, keeps the invariant.
LEMMA InfoStep == InfoInv /\ [Info!Next]_(Info!info_vars) => InfoInv'
<1>1. SUFFICES ASSUME InfoInv, [Info!Next]_(Info!info_vars) PROVE InfoInv'
  OBVIOUS
<1>2. CASE UNCHANGED Info!info_vars
  BY <1>1, <1>2
     DEF InfoInv, InfoShape, OidsExist, HandlersKnown, NothingToldYet,
         TextsAreTexts, TakenInTurn, Info!SizeTold, Info!GivesBackAll,
         Info!Exists, Info!info_vars
<1>3. CASE Info!Next
  <2>1. \/ \E x \in Nodes, p \in Nodes \cup {NoNode}, type \in Types,
              mode \in BOOLEAN : Info!Create(x, p, type, mode)
        \/ \E x \in Nodes : Info!Remove(x) \/ Info!RemoveEnds(x)
        \/ \E t \in Threads, x \in Nodes, long \in BOOLEAN :
             Info!TypeRequest(t, x, long)
        \/ \E t \in Threads, x \in Nodes, room \in 0 .. Info!NoRoom :
             Info!TextRequest(t, x, room)
        \/ \E t \in Threads : Info!Serve(t)
    BY <1>3 DEF Info!Next
  <2>2. ASSUME NEW t \in Threads, Info!Serve(t) PROVE InfoInv'
    BY <1>1, <2>2, TypeProcInv, TextProcInv, SequenceInv, OutInv DEF Info!Serve
  <2> QED
    BY <1>1, <2>1, <2>2, CreateInv, RemoveInv, RemoveEndsInv, TypeProcInv,
       TextProcInv
<1> QED
  BY <1>1, <1>2, <1>3

\* Type correctness of nodes and requests; no length told exceeds the text's.
LEMMA InfoInvTypes == InfoInv => Info!TypeOK
<1> SUFFICES ASSUME InfoInv PROVE Info!TypeOK
  OBVIOUS
<1>1. ASSUME NEW x \in Nodes, Info!Exists(x)
      PROVE  /\ node[x].type \in Types /\ node[x].mode \in BOOLEAN
             /\ node[x].parent \in Nodes \cup {NoNode}
  BY <1>1, ExistingNode DEF InfoInv, InfoNode
<1>2. ASSUME NEW t \in Threads PROVE req[t] \in InfoCall
  BY DEF InfoInv, InfoShape
<1> QED
  BY <1>1, <1>2 DEF InfoInv, InfoShape, InfoCall, Info!TypeOK

\* A handler counts as running on its node, and the node stays until none does.
LEMMA InfoInvHandlers == InfoInv => Info!NoHandlerOnGone
BY HandlerNode DEF Info!NoHandlerOnGone
-----------------------------------------------------------------------------
(* Memory for DMA and user pages.                                          *)

\* What the kernel has made for an allocation, by where its call is.
Made(place) ==
  CASE place = "free" -> {}
    [] place \in {"mem_alloc", "free_handle", "destroy"} -> {"tag"}
    [] place \in {"load", "free_mem", "unloaded"} -> {"tag", "mem"}
    [] OTHER -> {"tag", "mem", "load"}

\* Where a call for DMA memory may be.
DmaPlaces == {"free", "mem_alloc", "load", "free_mem", "free_handle",
              "allocated", "unloaded", "destroy"}

\* The address is known from the load to the end of the free.
DmaInv ==
  /\ dma_pc \in [Handles -> DmaPlaces]
  /\ phys_addr \in [Handles -> BOOLEAN]
  /\ kernel = [d \in Handles |-> Made(dma_pc[d])]
  /\ \A d \in Handles :
       phys_addr[d] <=> dma_pc[d] \in {"allocated", "unloaded", "destroy"}

\* A page is wired as often as callers have it.
PagesInv ==
  /\ pinned \in [Pages -> 0 .. MaxWired]
  /\ wired = pinned

\* The inductive invariant of DMA memory and user pages.
MemoryInv == DmaInv /\ PagesInv

\* There is no allocation and no page is wired to begin with.
LEMMA MemoryInit == Memory!Init => MemoryInv
BY LibraryAssumption
   DEF Memory!Init, MemoryInv, DmaInv, PagesInv, DmaPlaces, Made

\* One step of kfio_dma_alloc_coherent or kfio_dma_free_coherent.
LEMMA DmaStep ==
  ASSUME DmaInv, NEW d \in Handles, NEW from, NEW to \in DmaPlaces,
         NEW made, NEW undone, Memory!Step(d, from, to, made, undone),
         Made(to) = (Made(from) \cup made) \ undone,
         \/ /\ Memory!Same
            /\ from \in {"allocated", "unloaded", "destroy"}
                 <=> to \in {"allocated", "unloaded", "destroy"}
         \/ /\ phys_addr' = [phys_addr EXCEPT ![d] = TRUE]
            /\ to = "allocated"
         \/ /\ phys_addr' = [phys_addr EXCEPT ![d] = FALSE]
            /\ to = "free"
  PROVE  DmaInv'
<1>1. /\ dma_pc[d] = from /\ dma_pc' = [dma_pc EXCEPT ![d] = to]
      /\ kernel' = [kernel EXCEPT ![d] = (kernel[d] \cup made) \ undone]
  BY DEF Memory!Step
<1>2. dma_pc' \in [Handles -> DmaPlaces] /\ phys_addr' \in [Handles -> BOOLEAN]
  BY <1>1 DEF DmaInv, Memory!Same
<1>3. \A g \in Handles : dma_pc'[g] = IF g = d THEN to ELSE dma_pc[g]
  BY <1>1 DEF DmaInv
<1>4. kernel' = [g \in Handles |-> Made(dma_pc'[g])]
  <2>1. kernel[d] = Made(from)
    BY <1>1 DEF DmaInv
  <2> QED
    BY <1>1, <1>3, <2>1 DEF DmaInv
<1>5. \A g \in Handles :
        phys_addr'[g] <=> dma_pc'[g] \in {"allocated", "unloaded", "destroy"}
  BY <1>1, <1>3 DEF DmaInv, Memory!Same
<1> QED
  BY <1>2, <1>4, <1>5 DEF DmaInv

\* Every step of them is one, and leaves the pages.
LEMMA HandleStep ==
  ASSUME MemoryInv, NEW d \in Handles,
         \/ Memory!TagCreate(d) \/ Memory!MemAlloc(d) \/ Memory!Load(d)
         \/ Memory!FreeMem(d) \/ Memory!FreeHandle(d)
         \/ Memory!Unload(d) \/ Memory!MemFree(d) \/ Memory!TagDestroy(d)
  PROVE  MemoryInv'
<1>1. PagesInv'
  BY DEF Memory!TagCreate, Memory!MemAlloc, Memory!Load, Memory!FreeMem,
         Memory!FreeHandle, Memory!Unload, Memory!MemFree, Memory!TagDestroy,
         Memory!Step, MemoryInv, PagesInv
<1> SUFFICES DmaInv'
  BY <1>1 DEF MemoryInv
<1>2. /\ Made("mem_alloc") = (Made("free") \cup {"tag"}) \ {}
      /\ Made("load") = (Made("mem_alloc") \cup {"mem"}) \ {}
      /\ Made("free_handle") = (Made("mem_alloc") \cup {}) \ {}
      /\ Made("allocated") = (Made("load") \cup {"load"}) \ {}
      /\ Made("free_mem") = (Made("load") \cup {}) \ {}
      /\ Made("free_handle") = (Made("free_mem") \cup {}) \ {"mem"}
      /\ Made("free") = (Made("free_handle") \cup {}) \ {"tag"}
      /\ Made("unloaded") = (Made("allocated") \cup {}) \ {"load"}
      /\ Made("destroy") = (Made("unloaded") \cup {}) \ {"mem"}
      /\ Made("free") = (Made("destroy") \cup {}) \ {"tag"}
  BY DEF Made
<1>3. CASE Memory!TagCreate(d)
  BY <1>3, <1>2, DmaStep DEF Memory!TagCreate, DmaPlaces, MemoryInv
<1>4. CASE Memory!MemAlloc(d)
  BY <1>4, <1>2, DmaStep DEF Memory!MemAlloc, DmaPlaces, MemoryInv
<1>5. CASE Memory!Load(d)
  BY <1>5, <1>2, DmaStep
     DEF Memory!Load, DmaPlaces, MemoryInv, Memory!LoadError
<1>6. CASE Memory!FreeMem(d)
  BY <1>6, <1>2, DmaStep DEF Memory!FreeMem, DmaPlaces, MemoryInv
<1>7. CASE Memory!FreeHandle(d)
  BY <1>7, <1>2, DmaStep DEF Memory!FreeHandle, DmaPlaces, MemoryInv
<1>8. CASE Memory!Unload(d)
  BY <1>8, <1>2, DmaStep DEF Memory!Unload, DmaPlaces, MemoryInv
<1>9. CASE Memory!MemFree(d)
  BY <1>9, <1>2, DmaStep DEF Memory!MemFree, DmaPlaces, MemoryInv
<1>10. CASE Memory!TagDestroy(d)
  BY <1>10, <1>2, DmaStep DEF Memory!TagDestroy, DmaPlaces, MemoryInv
<1> QED
  BY <1>3, <1>4, <1>5, <1>6, <1>7, <1>8, <1>9, <1>10

-----------------------------------------------------------------------------
(* kfio_put_user_pages unwires each page as often as it is in the array.    *)

\* The arrays of pages a caller may give back.
PageArray == UNION {[1 .. k -> Pages] : k \in 1 .. MaxArray}

\* An array of pages has a length and a page at each place.
LEMMA ArrayHasLength ==
  ASSUME NEW pages \in PageArray
  PROVE  Len(pages) \in Nat /\ pages \in [1 .. Len(pages) -> Pages]
<1>1. PICK k \in 1 .. MaxArray : pages \in [1 .. k -> Pages]
  BY DEF PageArray
<1>2. k \in Nat
  BY <1>1, LibraryAssumption
<1>3. Len(pages) = k
  BY <1>1, <1>2
<1> QED
  BY <1>1, <1>2, <1>3

\* The inner loop ends, at the first place where a range breaks.
LEMMA EndOfRange ==
  ASSUME NEW pages \in PageArray, NEW i \in Memory!Starts(pages)
  PROVE  LET e == Memory!End(pages, i)
         IN  /\ e \in i + 1 .. Len(pages) + 1
             /\ e = Len(pages) + 1 \/ Memory!Breaks(pages, e)
             /\ \A k \in i + 1 .. e - 1 : ~Memory!Breaks(pages, k)
<1> DEFINE L == Len(pages)
           stops == {j \in i + 1 .. L + 1 : j = L + 1 \/ Memory!Breaks(pages, j)}
<1>1. L \in Nat /\ i \in 1 .. L
  BY ArrayHasLength DEF Memory!Starts
<1>2. L + 1 \in stops /\ stops \in SUBSET Nat
  BY <1>1
<1>3. PICK j \in stops : \A k \in stops : j <= k
  BY <1>2, LeastOf
<1>4. \A k \in i + 1 .. j - 1 : ~Memory!Breaks(pages, k)
  BY <1>1, <1>3
<1> HIDE DEF stops
<1>5. \E e \in i + 1 .. L + 1 :
        /\ e = L + 1 \/ Memory!Breaks(pages, e)
        /\ \A k \in i + 1 .. e - 1 : ~Memory!Breaks(pages, k)
  BY <1>3, <1>4 DEF stops
<1> QED
  BY <1>5 DEF Memory!End

\* The pages of a range follow one another.
LEMMA RangeFollows ==
  ASSUME NEW pages \in PageArray, NEW i \in Memory!Starts(pages),
         NEW k \in i .. Memory!End(pages, i) - 1
  PROVE  k \in 1 .. Len(pages) /\ pages[k] = pages[i] + (k - i)
<1> DEFINE L == Len(pages)
           e == Memory!End(pages, i)
           run == {d \in Nat : i + d < e => pages[i + d] = pages[i] + d}
<1>1. /\ L \in Nat /\ i \in 1 .. L /\ e \in i + 1 .. L + 1
      /\ pages \in [1 .. L -> Pages]
      /\ \A j \in i + 1 .. e - 1 : ~Memory!Breaks(pages, j)
  BY ArrayHasLength, EndOfRange DEF Memory!Starts
<1> HIDE DEF L, e
<1>2. \A j \in 1 .. L : pages[j] \in Nat
  BY <1>1, LibraryAssumption
<1>3. 0 \in run
  BY <1>1, <1>2
<1>4. ASSUME NEW d \in Nat, d \in run PROVE d + 1 \in run
  <2>1. SUFFICES ASSUME i + (d + 1) < e
                 PROVE  pages[i + (d + 1)] = pages[i] + (d + 1)
    OBVIOUS
  <2> DEFINE j == i + (d + 1)
  <2>2. j \in i + 1 .. e - 1 /\ j - 1 = i + d /\ i + d < e /\ i + d \in 1 .. L
    BY <1>1, <2>1
  <2>3. pages[j - 1] + 1 = pages[j]
    BY <1>1, <2>2 DEF Memory!Breaks
  <2>4. pages[i + d] = pages[i] + d
    BY <1>4, <2>2
  <2>5. pages[i] \in Nat
    BY <1>1, <1>2
  <2> QED
    BY <2>2, <2>3, <2>4, <2>5
<1>5. Nat \subseteq run
  <2> HIDE DEF run
  <2> QED
    BY <1>3, <1>4, Induction
<1>6. k - i \in Nat /\ i + (k - i) = k /\ k \in 1 .. L /\ k < e
  BY <1>1 DEF e
<1>7. k - i \in run
  BY <1>5, <1>6
<1> QED
  BY <1>6, <1>7 DEF L

\* Every place of the array is in the range of one start, the last before it.
LEMMA PlaceHasStart ==
  ASSUME NEW pages \in PageArray, NEW k \in 1 .. Len(pages)
  PROVE  \E i \in Memory!Starts(pages) : k \in i .. Memory!End(pages, i) - 1
<1> DEFINE L == Len(pages)
           back == {d \in Nat : k - d \in Memory!Starts(pages)}
<1>1. L \in Nat /\ k \in 1 .. L /\ Memory!Starts(pages) \subseteq 1 .. L
  BY ArrayHasLength DEF Memory!Starts
<1>2. k - 1 \in Nat /\ k - (k - 1) = 1 /\ 1 \in Memory!Starts(pages)
  BY <1>1 DEF Memory!Starts
<1>3. PICK d \in back : \A c \in back : d <= c
  <2>1. back \in SUBSET Nat /\ back # {}
    BY <1>2
  <2> QED
    BY <2>1, LeastOf
<1> DEFINE i == k - d
           e == Memory!End(pages, i)
<1>4. i \in Memory!Starts(pages) /\ i \in 1 .. k
  BY <1>1, <1>3
<1>5. \A j \in i + 1 .. k : j \notin Memory!Starts(pages)
  <2>1. SUFFICES ASSUME NEW j \in i + 1 .. k, j \in Memory!Starts(pages)
                 PROVE  FALSE
    OBVIOUS
  <2>2. k - j \in Nat /\ k - (k - j) = j /\ k - j < d
    BY <1>1, <1>3, <2>1
  <2>3. k - j \in back
    BY <2>1, <2>2
  <2> QED
    BY <1>3, <2>2, <2>3
<1>6. e \in i + 1 .. L + 1 /\ (e = L + 1 \/ Memory!Breaks(pages, e))
  BY <1>4, EndOfRange
<1> HIDE DEF i, e, L
<1>7. e > k
  <2>1. SUFFICES ASSUME e <= k PROVE FALSE
    BY <1>1, <1>4, <1>6
  <2>2. e \in 1 .. L /\ Memory!Breaks(pages, e) /\ e \in i + 1 .. k
    BY <1>1, <1>4, <1>6, <2>1
  <2>3. e \in Memory!Starts(pages)
    BY <2>2 DEF Memory!Starts, L
  <2> QED
    BY <1>5, <2>2, <2>3
<1>8. k \in i .. e - 1
  BY <1>1, <1>4, <1>6, <1>7
<1> QED
  BY <1>4, <1>8 DEF e

\* The module's own instance of a library operator.
LEMMA SameCardinality ==
  ASSUME NEW S PROVE Memory!Cardinality(S) = Cardinality(S)
BY DEF Memory!Cardinality, Cardinality

\* The runs of consecutive pages kfio_put_user_pages unlocks hold a page as
\* often as its array does.
LEMMA UnlockedIsCount ==
  ASSUME NEW pages \in PageArray, NEW p \in Pages
  PROVE  /\ Memory!Unlocked(pages, p) = Memory!Count(pages, p)
         /\ Memory!Unlocked(pages, p) \in Nat
<1> DEFINE L == Len(pages)
           E(i) == Memory!End(pages, i)
           places == {k \in 1 .. L : pages[k] = p}
           starts == {i \in Memory!Starts(pages) :
                        p \in Memory!Span(pages[i], Memory!End(pages, i) - i)}
           f == [i \in starts |-> i + (p - pages[i])]
<1>1. L \in Nat /\ pages \in [1 .. L -> Pages] /\ p \in Nat
  BY ArrayHasLength, LibraryAssumption
<1>2. /\ Memory!Starts(pages) \subseteq 1 .. L
      /\ \A j \in 1 .. L : pages[j] \in Nat
  BY <1>1, LibraryAssumption DEF Memory!Starts
<1>3. ASSUME NEW i \in starts
      PROVE  f[i] \in i .. E(i) - 1 /\ f[i] \in places
  <2>1. /\ i \in Memory!Starts(pages) /\ pages[i] <= p
        /\ p < pages[i] + (E(i) - i) /\ i \in 1 .. L /\ pages[i] \in Nat
    BY <1>2 DEF Memory!Span
  <2>2. E(i) \in i + 1 .. L + 1
    BY <2>1, EndOfRange
  <2>3. f[i] \in i .. E(i) - 1 /\ pages[i] + (f[i] - i) = p
    BY <1>1, <2>1, <2>2
  <2>4. f[i] \in 1 .. L /\ pages[f[i]] = pages[i] + (f[i] - i)
    BY <2>1, <2>3, RangeFollows
  <2> QED
    BY <2>3, <2>4
<1>4. ASSUME NEW i \in Memory!Starts(pages), NEW j \in Memory!Starts(pages), i < j,
             NEW k \in j .. E(j) - 1
      PROVE  k \notin i .. E(i) - 1
  <2>1. SUFFICES ASSUME k \in i .. E(i) - 1 PROVE FALSE
    OBVIOUS
  <2>2. i \in 1 .. L /\ j \in 1 .. L /\ E(i) \in i + 1 .. L + 1
    BY <1>2, EndOfRange
  <2>3. j \in i + 1 .. E(i) - 1
    BY <1>1, <1>4, <2>1, <2>2
  <2>4. ~Memory!Breaks(pages, j)
    BY <2>3, EndOfRange
  <2> QED
    BY <1>4, <2>2, <2>4 DEF Memory!Starts
<1>5. \A i, j \in starts : f[i] = f[j] => i = j
  <2>1. SUFFICES ASSUME NEW i \in starts, NEW j \in starts, f[i] = f[j], i # j
                 PROVE  FALSE
    OBVIOUS
  <2>2. i \in 1 .. L /\ j \in 1 .. L
    BY <1>2
  <2>3. i < j \/ j < i
    BY <2>1, <2>2, <1>1
  <2> QED
    BY <1>3, <1>4, <2>1, <2>3
<1>6. ASSUME NEW k \in places PROVE \E i \in starts : f[i] = k
  <2>1. PICK i \in Memory!Starts(pages) : k \in i .. E(i) - 1
    BY PlaceHasStart
  <2>2. pages[k] = pages[i] + (k - i) /\ pages[k] = p
    BY <2>1, RangeFollows
  <2>3. /\ i \in 1 .. L /\ k \in 1 .. L /\ E(i) \in i + 1 .. L + 1
        /\ pages[i] \in Nat
    BY <1>2, <2>1, EndOfRange
  <2>4. pages[i] <= p /\ p < pages[i] + (E(i) - i) /\ i + (p - pages[i]) = k
    BY <1>1, <2>1, <2>2, <2>3
  <2>5. i \in starts
    BY <2>1, <2>4 DEF Memory!Span
  <2> QED
    BY <2>4, <2>5
<1>7. f \in [starts -> places]
  BY <1>3
<1> HIDE DEF f
<1>8. f \in Bijection(starts, places)
  BY <1>5, <1>6, <1>7
     DEF Bijection, Injection, Surjection, IsInjective
<1>9. IsFiniteSet(starts)
  <2>1. IsFiniteSet(1 .. L)
    BY <1>1, FS_Interval
  <2>2. starts \in SUBSET (1 .. L)
    BY <1>2
  <2> QED
    BY <2>1, <2>2, FS_Subset
<1>10. Cardinality(places) = Cardinality(starts) /\ Cardinality(starts) \in Nat
  BY <1>8, <1>9, FS_Bijection, FS_CardinalityType DEF ExistsBijection
<1>11. /\ Memory!Unlocked(pages, p) = Cardinality(starts)
       /\ Memory!Count(pages, p) = Cardinality(places)
  BY SameCardinality, Zenon DEF Memory!Unlocked, Memory!Count
<1> HIDE DEF starts, places
<1> QED
  BY <1>10, <1>11

\* kfio_get_user_pages wires a page once for each time the caller has it.
LEMMA GetUserPagesInv ==
  ASSUME MemoryInv, NEW start \in Pages, NEW nr_pages \in 1 .. MaxArray,
         Memory!GetUserPages(start, nr_pages)
  PROVE  MemoryInv'
<1> DEFINE r == Memory!Span(start, nr_pages)
<1>1. /\ \A p \in r : wired[p] < MaxWired
      /\ wired' = [p \in Pages |-> IF p \in r THEN wired[p] + 1 ELSE wired[p]]
      /\ pinned' = [p \in Pages |-> IF p \in r THEN pinned[p] + 1 ELSE pinned[p]]
      /\ UNCHANGED <<dma_pc, kernel, phys_addr>>
  BY DEF Memory!GetUserPages
<1>2. r \subseteq Pages
  BY DEF Memory!Span
<1> HIDE DEF r
<1>3. \A p \in Pages : pinned[p] \in 0 .. MaxWired /\ wired[p] = pinned[p]
  BY DEF MemoryInv, PagesInv
<1>4. \A p \in Pages :
        (IF p \in r THEN pinned[p] + 1 ELSE pinned[p]) \in 0 .. MaxWired
  BY <1>1, <1>2, <1>3, LibraryAssumption
<1>5. PagesInv'
  BY <1>1, <1>3, <1>4 DEF PagesInv
<1> QED
  BY <1>1, <1>5 DEF MemoryInv, DmaInv

\* kfio_put_user_pages unwires a page once for each time it is in the array.
LEMMA PutUserPagesInv ==
  ASSUME MemoryInv, NEW pages \in PageArray, Memory!PutUserPages(pages)
  PROVE  MemoryInv'
<1> DEFINE Count(p) == Memory!Count(pages, p)
<1>1. /\ \A p \in Pages : Count(p) <= pinned[p]
      /\ pinned' = [p \in Pages |-> pinned[p] - Count(p)]
      /\ wired' = [p \in Pages |-> wired[p] - Memory!Unlocked(pages, p)]
      /\ UNCHANGED <<dma_pc, kernel, phys_addr>>
  BY DEF Memory!PutUserPages
<1>2. \A p \in Pages : Memory!Unlocked(pages, p) = Count(p) /\ Count(p) \in Nat
  BY UnlockedIsCount
<1> HIDE DEF Count
<1>3. \A p \in Pages : pinned[p] \in 0 .. MaxWired /\ wired[p] = pinned[p]
  BY DEF MemoryInv, PagesInv
<1>4. \A p \in Pages : pinned[p] - Count(p) \in 0 .. MaxWired
  BY <1>1, <1>2, <1>3, LibraryAssumption
<1>5. PagesInv'
  BY <1>1, <1>2, <1>3, <1>4 DEF PagesInv
<1> QED
  BY <1>1, <1>5 DEF MemoryInv, DmaInv

\* Every step of an allocation, a free and a call on user pages keeps the
\* invariant.
LEMMA MemoryStep ==
  MemoryInv /\ [Memory!Next]_(Memory!memory_vars) => MemoryInv'
<1>1. SUFFICES ASSUME MemoryInv, [Memory!Next]_(Memory!memory_vars)
               PROVE  MemoryInv'
  OBVIOUS
<1>2. CASE UNCHANGED Memory!memory_vars
  BY <1>1, <1>2 DEF MemoryInv, DmaInv, PagesInv, Memory!memory_vars
<1>3. CASE Memory!Next
  <2>1. \/ \E d \in Handles :
             \/ Memory!TagCreate(d) \/ Memory!MemAlloc(d) \/ Memory!Load(d)
             \/ Memory!FreeMem(d) \/ Memory!FreeHandle(d)
             \/ Memory!Unload(d) \/ Memory!MemFree(d) \/ Memory!TagDestroy(d)
        \/ \E start \in Pages, nr_pages \in 1 .. MaxArray :
             Memory!GetUserPages(start, nr_pages)
        \/ \E pages \in PageArray : Memory!PutUserPages(pages)
    BY <1>3 DEF Memory!Next, PageArray
  <2> QED
    BY <1>1, <2>1, HandleStep, GetUserPagesInv, PutUserPagesInv
<1> QED
  BY <1>1, <1>2, <1>3

\* An allocation for DMA has all of its memory or nothing, whichever step
\* failed, and a user's pages are wired as often as callers have them, however
\* the arrays that are given back are cut and joined.
LEMMA MemoryInvKeepsNothing ==
  MemoryInv => Memory!TypeOK /\ Memory!NothingKept
<1>1. SUFFICES ASSUME MemoryInv PROVE Memory!TypeOK /\ Memory!NothingKept
  OBVIOUS
<1>2. ASSUME NEW d \in Handles
      PROVE  /\ dma_pc[d] \in DmaPlaces /\ kernel[d] = Made(dma_pc[d])
             /\ phys_addr[d] <=> dma_pc[d] \in {"allocated", "unloaded", "destroy"}
  BY <1>1 DEF MemoryInv, DmaInv
<1>3. \A place \in DmaPlaces :
        Made(place) \in {{}, {"tag"}, {"tag", "mem"}, {"tag", "mem", "load"}}
  BY DEF DmaPlaces, Made
<1>4. Made("free") = {} /\ Made("allocated") = {"tag", "mem", "load"}
  BY DEF Made
<1>5. kernel \in [Handles -> SUBSET {"tag", "mem", "load"}]
  <2>1. \A place \in DmaPlaces : Made(place) \in SUBSET {"tag", "mem", "load"}
    BY DEF DmaPlaces, Made
  <2> QED
    BY <1>1, <1>2, <2>1 DEF MemoryInv, DmaInv
<1>6. Memory!TypeOK
  BY <1>1, <1>5 DEF MemoryInv, DmaInv, PagesInv, DmaPlaces, Memory!TypeOK
<1>7. Memory!NothingKept
  BY <1>1, <1>2, <1>3, <1>4 DEF MemoryInv, PagesInv, Memory!NothingKept
<1> QED
  BY <1>6, <1>7

-----------------------------------------------------------------------------
(* Sequences as SequenceLists has them, and as the lemmas on rings do.     *)

\* A sequence is what its elements are.
LEMMA SequenceIs ==
  ASSUME NEW E, NEW u \in Seq(E), NEW n, n = Len(u), NEW w,
         w = [k \in 1 .. n |-> w[k]], \A k \in 1 .. n : u[k] = w[k]
  PROVE  u = w
<1>1. u = [k \in 1 .. n |-> u[k]]
  OBVIOUS
<1> QED
  BY <1>1

LEMMA Concatenated ==
  ASSUME NEW E, NEW s \in Seq(E), NEW t \in Seq(E)
  PROVE  s \o t = [k \in 1 .. Len(s) + Len(t) |->
                     IF k <= Len(s) THEN s[k] ELSE t[k - Len(s)]]
<1> DEFINE w == [k \in 1 .. Len(s) + Len(t) |->
                   IF k <= Len(s) THEN s[k] ELSE t[k - Len(s)]]
           u == s \o t
<1>1. /\ u \in Seq(E) /\ Len(u) = Len(s) + Len(t)
      /\ \A k \in 1 .. Len(s) + Len(t) :
           u[k] = IF k <= Len(s) THEN s[k] ELSE t[k - Len(s)]
  OBVIOUS
<1>2. /\ w = [k \in 1 .. Len(s) + Len(t) |-> w[k]]
      /\ \A k \in 1 .. Len(s) + Len(t) :
           w[k] = IF k <= Len(s) THEN s[k] ELSE t[k - Len(s)]
  OBVIOUS
<1> HIDE DEF u, w
<1>3. u = w
  BY <1>1, <1>2, SequenceIs
<1> QED
  BY <1>3 DEF u, w

LEMMA Appended ==
  ASSUME NEW E, NEW s \in Seq(E), NEW e \in E
  PROVE  Append(s, e) = [k \in 1 .. Len(s) + 1 |-> IF k = Len(s) + 1 THEN e ELSE s[k]]
<1> DEFINE w == [k \in 1 .. Len(s) + 1 |-> IF k = Len(s) + 1 THEN e ELSE s[k]]
           u == Append(s, e)
<1>1. /\ u \in Seq(E) /\ Len(u) = Len(s) + 1
      /\ \A k \in 1 .. Len(s) + 1 : u[k] = IF k = Len(s) + 1 THEN e ELSE s[k]
  OBVIOUS
<1>2. /\ w = [k \in 1 .. Len(s) + 1 |-> w[k]]
      /\ \A k \in 1 .. Len(s) + 1 : w[k] = IF k = Len(s) + 1 THEN e ELSE s[k]
  OBVIOUS
<1> HIDE DEF u, w
<1>3. u = w
  BY <1>1, <1>2, SequenceIs
<1> QED
  BY <1>3 DEF u, w

LEMMA TailIs ==
  ASSUME NEW E, NEW s \in Seq(E), s # <<>>
  PROVE  Tail(s) = [k \in 1 .. Len(s) - 1 |-> s[k + 1]]
<1> DEFINE w == [k \in 1 .. Len(s) - 1 |-> s[k + 1]]
           u == Tail(s)
<1>1. /\ u \in Seq(E) /\ Len(u) = Len(s) - 1
      /\ \A k \in 1 .. Len(s) - 1 : u[k] = s[k + 1]
  OBVIOUS
<1>2. /\ w = [k \in 1 .. Len(s) - 1 |-> w[k]]
      /\ \A k \in 1 .. Len(s) - 1 : w[k] = s[k + 1]
  OBVIOUS
<1> HIDE DEF u, w
<1>3. u = w
  BY <1>1, <1>2, SequenceIs
<1> QED
  BY <1>3 DEF u, w

\* What is behind the first j elements of s.
Behind(s, j) == [k \in 1 .. Len(s) - j |-> s[j + k]]

\* What is behind the first is the tail, and the tail of what is behind j
\* elements is what is behind one more.
LEMMA BehindIs ==
  ASSUME NEW E, NEW s \in Seq(E), NEW j \in 0 .. Len(s)
  PROVE  /\ Behind(s, j) \in Seq(E) /\ Len(Behind(s, j)) = Len(s) - j
         /\ j = Len(s) <=> Behind(s, j) = <<>>
         /\ j < Len(s) => Tail(Behind(s, j)) = Behind(s, j + 1)
         /\ s # <<>> => Tail(s) = Behind(s, 1)
<1> DEFINE r == Behind(s, j)
<1>1. Len(s) \in Nat /\ j \in Nat /\ Len(s) - j \in Nat
  OBVIOUS
<1>2. r = [k \in 1 .. Len(s) - j |-> s[j + k]]
  BY DEF Behind
<1>3. \A k \in 1 .. Len(s) - j : s[j + k] \in E
  BY <1>1
<1>4. r \in Seq(E) /\ Len(r) = Len(s) - j
  BY <1>1, <1>2, <1>3
<1> HIDE DEF r
<1>5. j = Len(s) <=> r = <<>>
  BY <1>1, <1>4
<1>6. ASSUME j < Len(s) PROVE Tail(r) = Behind(s, j + 1)
  <2>1. r # <<>>
    BY <1>1, <1>5, <1>6
  <2>2. Tail(r) = [k \in 1 .. Len(r) - 1 |-> r[k + 1]]
    BY <1>4, <2>1, TailIs
  <2>3. Len(r) - 1 = Len(s) - (j + 1)
    BY <1>1, <1>4
  <2>4. \A k \in 1 .. Len(s) - (j + 1) : r[k + 1] = s[(j + 1) + k]
    BY <1>1, <1>2, <1>6
  <2> QED
    BY <2>2, <2>3, <2>4 DEF Behind
<1>7. ASSUME s # <<>> PROVE Tail(s) = Behind(s, 1)
  <2>1. Tail(s) = [k \in 1 .. Len(s) - 1 |-> s[k + 1]]
    BY <1>7, TailIs
  <2>2. \A k \in 1 .. Len(s) - 1 : s[k + 1] = s[1 + k]
    BY <1>1
  <2> QED
    BY <2>1, <2>2 DEF Behind
<1> QED
  BY <1>4, <1>5, <1>6, <1>7 DEF r

\* Taking off, putting first, putting last and joining sequences.
LEMMA SequencesAre ==
  ASSUME NEW E, NEW s \in Seq(E), NEW e \in E
  PROVE  /\ <<e>> \o s = InsertAt(s, 0, e)
         /\ Append(s, e) = InsertAt(s, Len(s), e)
         /\ s # <<>> => Tail(s) = Without(s, 1)
<1>1. Len(s) \in Nat
  OBVIOUS
<1>2. <<e>> \o s = InsertAt(s, 0, e)
  <2>1. /\ <<e>> \o s = [k \in 1 .. 1 + Len(s) |-> IF k <= 1 THEN e ELSE s[k - 1]]
    OBVIOUS
  <2>2. 1 + Len(s) = Len(s) + 1
    BY <1>1
  <2>3. \A k \in 1 .. Len(s) + 1 :
          (IF k <= 1 THEN e ELSE s[k - 1])
            = IF k <= 0 THEN s[k] ELSE IF k = 0 + 1 THEN e ELSE s[k - 1]
    BY <1>1
  <2> QED
    BY <2>1, <2>2, <2>3 DEF InsertAt
<1>3. Append(s, e) = InsertAt(s, Len(s), e)
  <2>1. Append(s, e) = [k \in 1 .. Len(s) + 1 |-> IF k = Len(s) + 1 THEN e ELSE s[k]]
    BY Appended
  <2>2. \A k \in 1 .. Len(s) + 1 :
          (IF k = Len(s) + 1 THEN e ELSE s[k])
            = IF k <= Len(s) THEN s[k] ELSE IF k = Len(s) + 1 THEN e ELSE s[k - 1]
    BY <1>1
  <2> QED
    BY <2>1, <2>2 DEF InsertAt
<1>4. ASSUME s # <<>> PROVE Tail(s) = Without(s, 1)
  <2>1. Tail(s) = [k \in 1 .. Len(s) - 1 |-> s[k + 1]]
    BY <1>4, TailIs
  <2>2. \A k \in 1 .. Len(s) - 1 :
          s[k + 1] = IF k < 1 THEN s[k] ELSE s[k + 1]
    BY <1>1
  <2> QED
    BY <2>1, <2>2 DEF Without
<1> QED
  BY <1>2, <1>3, <1>4

LEMMA JoinsAre ==
  ASSUME NEW E, NEW s \in Seq(E), NEW t \in Seq(E)
  PROVE  s \o t = Spliced(t, 0, s) /\ t \o s = Spliced(t, Len(t), s)
<1>1. Len(s) \in Nat /\ Len(t) \in Nat
  OBVIOUS
<1>2. s \o t = Spliced(t, 0, s)
  <2>1. s \o t = [k \in 1 .. Len(s) + Len(t) |->
                    IF k <= Len(s) THEN s[k] ELSE t[k - Len(s)]]
    BY Concatenated
  <2>2. Len(s) + Len(t) = Len(t) + Len(s)
    BY <1>1
  <2>3. \A k \in 1 .. Len(t) + Len(s) :
          (IF k <= Len(s) THEN s[k] ELSE t[k - Len(s)])
            = IF k <= 0 THEN t[k] ELSE IF k <= 0 + Len(s) THEN s[k - 0]
              ELSE t[k - Len(s)]
    BY <1>1
  <2> QED
    BY <2>1, <2>2, <2>3 DEF Spliced
<1>3. t \o s = Spliced(t, Len(t), s)
  <2>1. t \o s = [k \in 1 .. Len(t) + Len(s) |->
                    IF k <= Len(t) THEN t[k] ELSE s[k - Len(t)]]
    BY Concatenated
  <2>2. \A k \in 1 .. Len(t) + Len(s) :
          (IF k <= Len(t) THEN t[k] ELSE s[k - Len(t)])
            = IF k <= Len(t) THEN t[k] ELSE IF k <= Len(t) + Len(s) THEN s[k - Len(t)]
              ELSE t[k - Len(s)]
    BY <1>1
  <2> QED
    BY <2>1, <2>2 DEF Spliced
<1> QED
  BY <1>2, <1>3

\* Dropping an entry takes it from its place, if it is there.
LEMMA DropIs ==
  ASSUME NEW E, NEW s \in Seq(E), NEW e,
         \A i, j \in 1 .. Len(s) : s[i] = s[j] => i = j
  PROVE  /\ \A i \in 1 .. Len(s) : s[i] = e => Linked!Promise!Drop(s, e) = Without(s, i)
         /\ (\A i \in 1 .. Len(s) : s[i] # e) => Linked!Promise!Drop(s, e) = s
<1>1. Len(s) \in Nat /\ DOMAIN s = 1 .. Len(s)
  OBVIOUS
<1>2. ASSUME NEW i \in 1 .. Len(s), s[i] = e
      PROVE  Linked!Promise!Drop(s, e) = Without(s, i)
  <2>1. (CHOOSE j \in DOMAIN s : s[j] = e) = i
    BY <1>1, <1>2
  <2>2. Linked!Promise!Drop(s, e) = SubSeq(s, 1, i - 1) \o SubSeq(s, i + 1, Len(s))
    BY <1>1, <1>2, <2>1 DEF Linked!Promise!Drop
  <2> DEFINE u == SubSeq(s, 1, i - 1)
             v == SubSeq(s, i + 1, Len(s))
  <2>3. u = [k \in 1 .. i - 1 |-> s[k]]
    <3>1. u = [k \in 1 .. (i - 1) - 1 + 1 |-> s[k + 1 - 1]]
      BY <1>1
    <3>2. (i - 1) - 1 + 1 = i - 1 /\ \A k \in 1 .. i - 1 : s[k + 1 - 1] = s[k]
      BY <1>1
    <3> QED
      BY <3>1, <3>2
  <2>4. v = [k \in 1 .. Len(s) - i |-> s[i + k]]
    <3>1. v = [k \in 1 .. Len(s) - (i + 1) + 1 |-> s[k + (i + 1) - 1]]
      BY <1>1
    <3>2. Len(s) - (i + 1) + 1 = Len(s) - i
          /\ \A k \in 1 .. Len(s) - i : s[k + (i + 1) - 1] = s[i + k]
      BY <1>1
    <3> QED
      BY <3>1, <3>2
  <2> HIDE DEF u, v
  <2>5. /\ u \in Seq(E) /\ Len(u) = i - 1 /\ v \in Seq(E) /\ Len(v) = Len(s) - i
    <3>1. i - 1 \in Nat /\ Len(s) - i \in Nat
      BY <1>1
    <3>2. \A k \in 1 .. i - 1 : s[k] \in E
      BY <1>1
    <3>3. \A k \in 1 .. Len(s) - i : s[i + k] \in E
      BY <1>1
    <3> QED
      BY <2>3, <2>4, <3>1, <3>2, <3>3
  <2>6. u \o v = [k \in 1 .. Len(u) + Len(v) |->
                    IF k <= Len(u) THEN u[k] ELSE v[k - Len(u)]]
    BY <2>5, Concatenated
  <2>7. Len(u) + Len(v) = Len(s) - 1
    BY <1>1, <2>5
  <2>8. \A k \in 1 .. Len(s) - 1 :
          (IF k <= Len(u) THEN u[k] ELSE v[k - Len(u)])
            = IF k < i THEN s[k] ELSE s[k + 1]
    <3> SUFFICES ASSUME NEW k \in 1 .. Len(s) - 1
                 PROVE  (IF k <= Len(u) THEN u[k] ELSE v[k - Len(u)])
                          = IF k < i THEN s[k] ELSE s[k + 1]
      OBVIOUS
    <3>1. CASE k < i
      BY <1>1, <2>3, <2>5, <3>1
    <3>2. CASE ~(k < i)
      <4>1. k - Len(u) \in 1 .. Len(s) - i /\ i + (k - Len(u)) = k + 1
            /\ ~(k <= Len(u))
        BY <1>1, <2>5, <3>2
      <4>2. v[k - Len(u)] = s[i + (k - Len(u))]
        BY <2>4, <4>1
      <4> QED
        BY <3>2, <4>1, <4>2
    <3> QED
      BY <3>1, <3>2
  <2> QED
    BY <2>2, <2>6, <2>7, <2>8 DEF Without, u, v
<1>3. ASSUME \A i \in 1 .. Len(s) : s[i] # e PROVE Linked!Promise!Drop(s, e) = s
  BY <1>1, <1>3 DEF Linked!Promise!Drop
<1> QED
  BY <1>2, <1>3

\* Where a loop is that goes on at n when its body has had e, and ends at l:
\* past the first j elements of s, which e is among, at the last of them if the
\* loop is not the safe one.
Placed(s, l, e, n, safe, j) ==
  /\ j \in 0 .. Len(s) /\ n = At(l, s, j + 1)
  /\ safe \/ (j # 0 /\ s[j] = e)
  /\ \A k \in j + 1 .. Len(s) : s[k] # e

\* A loop begins at the first element, or is at the j-th.
LEMMA PlacedAt ==
  ASSUME NEW E, NEW s \in Seq(E), NEW l, NEW safe \in BOOLEAN,
         \A i, j \in 1 .. Len(s) : s[i] = s[j] => i = j,
         NEW j \in 1 .. Len(s)
  PROVE  Placed(s, l, s[j], At(l, s, j + 1), safe, j)
BY DEF Placed

\* What is behind j elements stays so when one of these is taken out.
LEMMA CutBehind ==
  ASSUME NEW E, NEW s \in Seq(E), NEW i \in 1 .. Len(s), NEW j \in i .. Len(s)
  PROVE  Behind(Without(s, i), j - 1) = Behind(s, j)
<1> DEFINE t == Without(s, i)
<1>1. Len(s) \in Nat /\ i \in Nat /\ j \in Nat
  OBVIOUS
<1>2. /\ Len(t) = Len(s) - 1
      /\ \A k \in 1 .. Len(s) - 1 : t[k] = IF k < i THEN s[k] ELSE s[k + 1]
  BY Removed DEF Without
<1> HIDE DEF t
<1>3. Len(t) - (j - 1) = Len(s) - j
  BY <1>1, <1>2
<1>4. ASSUME NEW k \in 1 .. Len(s) - j PROVE t[(j - 1) + k] = s[j + k]
  <2>1. /\ (j - 1) + k \in 1 .. Len(s) - 1 /\ ~((j - 1) + k < i)
        /\ ((j - 1) + k) + 1 = j + k
    BY <1>1
  <2> QED
    BY <1>2, <2>1
<1>5. Behind(t, j - 1) = Behind(s, j)
  BY <1>3, <1>4 DEF Behind
<1> QED
  BY <1>5 DEF t

\* The body takes what it has off the list, wherever that is.
LEMMA CutPlaced ==
  ASSUME NEW E, NEW s \in Seq(E), NEW l, NEW i \in 1 .. Len(s), NEW n, NEW j,
         Placed(s, l, s[i], n, TRUE, j)
  PROVE  /\ Placed(Without(s, i), l, s[i], n, TRUE, j - 1)
         /\ Behind(Without(s, i), j - 1) = Behind(s, j)
<1> DEFINE t == Without(s, i)
           e == s[i]
<1>1. /\ Len(s) \in Nat /\ j \in 0 .. Len(s) /\ n = At(l, s, j + 1)
      /\ \A k \in j + 1 .. Len(s) : s[k] # e
  BY DEF Placed
<1>2. i <= j /\ j - 1 \in 0 .. Len(s) - 1 /\ j \in Nat /\ j # 0
  BY <1>1
<1>3. /\ Len(t) = Len(s) - 1
      /\ \A k \in 1 .. Len(s) - 1 : t[k] = IF k < i THEN s[k] ELSE s[k + 1]
  BY Removed DEF Without
<1> HIDE DEF t, e
<1>4. At(l, t, j) = At(l, s, j + 1)
  <2>1. CASE j = Len(s)
    BY <1>1, <1>3, <2>1 DEF At
  <2>2. CASE j # Len(s)
    <3>1. j \in 1 .. Len(s) - 1 /\ j + 1 \in 1 .. Len(s) /\ ~(j < i)
      BY <1>1, <1>2, <2>2
    <3> QED
      BY <1>3, <3>1 DEF At
  <2> QED
    BY <2>1, <2>2
<1>5. \A k \in j .. Len(t) : t[k] # e
  <2> SUFFICES ASSUME NEW k \in j .. Len(t) PROVE t[k] # e
    OBVIOUS
  <2>1. /\ k \in 1 .. Len(s) - 1 /\ ~(k < i) /\ k + 1 \in j + 1 .. Len(s)
    BY <1>1, <1>2, <1>3
  <2> QED
    BY <1>1, <1>3, <2>1
<1>6. (j - 1) + 1 = j
  BY <1>2
<1>7. Placed(t, l, e, n, TRUE, j - 1)
  BY <1>1, <1>2, <1>3, <1>4, <1>5, <1>6 DEF Placed
<1>8. j \in i .. Len(s)
  BY <1>1, <1>2
<1>9. Behind(t, j - 1) = Behind(s, j)
  BY <1>8, CutBehind DEF t
<1> QED
  BY <1>7, <1>9 DEF t, e

\* And puts it, or another that is not behind, first.
LEMMA FirstBehind ==
  ASSUME NEW E, NEW s \in Seq(E), NEW e \in E, NEW j \in 0 .. Len(s)
  PROVE  Behind(InsertAt(s, 0, e), j + 1) = Behind(s, j)
<1> DEFINE t == InsertAt(s, 0, e)
<1>1. Len(s) \in Nat /\ j \in Nat
  OBVIOUS
<1>2. /\ Len(t) = Len(s) + 1
      /\ \A k \in 2 .. Len(s) + 1 : t[k] = s[k - 1]
  BY <1>1 DEF InsertAt
<1> HIDE DEF t
<1>3. Len(t) - (j + 1) = Len(s) - j
  BY <1>1, <1>2
<1>4. ASSUME NEW k \in 1 .. Len(s) - j PROVE t[(j + 1) + k] = s[j + k]
  <2>1. /\ (j + 1) + k \in 2 .. Len(s) + 1
        /\ ((j + 1) + k) - 1 = j + k
    BY <1>1
  <2> QED
    BY <1>2, <2>1
<1>5. Behind(t, j + 1) = Behind(s, j)
  BY <1>3, <1>4 DEF Behind
<1> QED
  BY <1>5 DEF t

LEMMA FirstPlaced ==
  ASSUME NEW E, NEW s \in Seq(E), NEW l, NEW e \in E, NEW x, NEW n, NEW j,
         Placed(s, l, x, n, TRUE, j)
  PROVE  Placed(InsertAt(s, 0, e), l, x, n, TRUE, j + 1)
<1> DEFINE t == InsertAt(s, 0, e)
<1>1. /\ Len(s) \in Nat /\ j \in 0 .. Len(s) /\ n = At(l, s, j + 1)
      /\ \A k \in j + 1 .. Len(s) : s[k] # x
  BY DEF Placed
<1>2. /\ Len(t) = Len(s) + 1
      /\ \A k \in 2 .. Len(s) + 1 : t[k] = s[k - 1]
  BY <1>1 DEF InsertAt
<1> HIDE DEF t
<1>4. At(l, t, (j + 1) + 1) = At(l, s, j + 1)
  <2>1. CASE j = Len(s)
    BY <1>1, <1>2, <2>1 DEF At
  <2>2. CASE j # Len(s)
    <3>1. (j + 1) + 1 \in 2 .. Len(s) + 1 /\ j + 1 \in 1 .. Len(s)
          /\ ((j + 1) + 1) - 1 = j + 1 /\ (j + 1) + 1 \in 1 .. Len(t)
      BY <1>1, <1>2, <2>2
    <3> QED
      BY <1>2, <3>1 DEF At
  <2> QED
    BY <2>1, <2>2
<1>5. \A k \in (j + 1) + 1 .. Len(t) : t[k] # x
  <2> SUFFICES ASSUME NEW k \in (j + 1) + 1 .. Len(t) PROVE t[k] # x
    OBVIOUS
  <2>1. k \in 2 .. Len(s) + 1 /\ k - 1 \in j + 1 .. Len(s)
    BY <1>1, <1>2
  <2> QED
    BY <1>1, <1>2, <2>1
<1>7. Placed(t, l, x, n, TRUE, j + 1)
  BY <1>1, <1>2, <1>4, <1>5 DEF Placed
<1> QED
  BY <1>7 DEF t

\* Following f from l meets the elements of s, which l is not one of, and
\* comes back to l; s is no longer than a walk is let be.
Chained(E, f, l, b, s) ==
  /\ NULL \notin E /\ l \notin E /\ b \in Nat /\ s \in Seq(E) /\ Len(s) <= b
  /\ \A i \in 1 .. Len(s) : f[s[i]] = At(l, s, i + 1)

\* A walk from the first element on meets the sequence.
LEMMA WalkFromFirst ==
  \A E, f, l, b, s : Chained(E, f, l, b, s) => Ops!From(f, At(l, s, 1), l, b) = s
<1> SUFFICES ASSUME NEW E, NEW f, NEW l, NEW b, NEW s, Chained(E, f, l, b, s)
             PROVE  Ops!From(f, At(l, s, 1), l, b) = s
  OBVIOUS
<1>1. /\ NULL \notin E /\ l \notin E /\ b \in Nat /\ s \in Seq(E) /\ Len(s) <= b
      /\ \A i \in 1 .. Len(s) : f[s[i]] = At(l, s, i + 1)
  BY DEF Chained
<1> DEFINE e == At(l, s, 1)
<1>2. e = At(l, s, 1)
  OBVIOUS
<1> HIDE DEF e
<1>3. Ops!From(f, e, l, b) = s
  BY <1>1, <1>2, WalkMeets
<1> QED
  BY <1>2, <1>3

\* What a loop has yet to meet is what is behind where it is.
LEMMA WalkIsBehind ==
  \A E, f, l, b, s :
    Chained(E, f, l, b, s)
      => \A j \in 0 .. Len(s) : Ops!From(f, At(l, s, j + 1), l, b) = Behind(s, j)
<1> SUFFICES ASSUME NEW E, NEW f, NEW l, NEW b, NEW s, Chained(E, f, l, b, s),
                    NEW j \in 0 .. Len(s)
             PROVE  Ops!From(f, At(l, s, j + 1), l, b) = Behind(s, j)
  OBVIOUS
<1>1. /\ NULL \notin E /\ l \notin E /\ b \in Nat /\ s \in Seq(E) /\ Len(s) <= b
      /\ \A i \in 1 .. Len(s) : f[s[i]] = At(l, s, i + 1)
  BY DEF Chained
<1> DEFINE r == Behind(s, j)
<1>2. Len(s) \in Nat /\ j \in Nat
  BY <1>1
<1>3. r \in Seq(E) /\ Len(r) = Len(s) - j
  BY <1>1, BehindIs
<1>4. \A k \in 1 .. Len(r) : r[k] = s[j + k]
  BY <1>3 DEF Behind
<1> HIDE DEF r
<1>5. \A k \in 1 .. Len(r) + 1 : At(l, r, k) = At(l, s, j + k)
  <2> SUFFICES ASSUME NEW k \in 1 .. Len(r) + 1
               PROVE  At(l, r, k) = At(l, s, j + k)
    OBVIOUS
  <2>1. k \in 1 .. Len(r) <=> j + k \in 1 .. Len(s)
    BY <1>2, <1>3
  <2> QED
    BY <1>4, <2>1 DEF At
<1>6. \A k \in 1 .. Len(r) : f[r[k]] = At(l, r, k + 1)
  <2> SUFFICES ASSUME NEW k \in 1 .. Len(r) PROVE f[r[k]] = At(l, r, k + 1)
    OBVIOUS
  <2>1. /\ j + k \in 1 .. Len(s) /\ k + 1 \in 1 .. Len(r) + 1
        /\ (j + k) + 1 = j + (k + 1)
    BY <1>2, <1>3
  <2> QED
    BY <1>1, <1>4, <1>5, <2>1
<1>7. At(l, s, j + 1) = At(l, r, 1)
  <2>1. 1 \in 1 .. Len(r) + 1
    BY <1>2, <1>3
  <2> QED
    BY <1>5, <2>1
<1>8. Len(r) <= b
  BY <1>1, <1>2, <1>3
<1>9. Chained(E, f, l, b, r)
  BY <1>1, <1>3, <1>6, <1>8 DEF Chained
<1>20. Ops!From(f, At(l, r, 1), l, b) = r
  BY <1>9, WalkFromFirst
<1> QED
  BY <1>7, <1>20 DEF r

-----------------------------------------------------------------------------
(* LinkedLists.                                                            *)

\* The functions of list.h are those the lemmas are about.
LEMMA LinkedCalls ==
  /\ \A g, e : Linked!InitEntry(g, e) = Ops!InitEntry(g, e)
  /\ \A g, e : Linked!Unlink(g, e) = Ops!Unlink(g, e)
  /\ \A g, e, l : Linked!AddHead(g, e, l) = Ops!ListAdd(g, e, l, g.next[l])
  /\ \A g, e, l : Linked!AddTail(g, e, l) = Ops!ListAdd(g, e, g.prev[l], l)
<1>1. \A g, e : Linked!InitEntry(g, e) = Ops!InitEntry(g, e)
  BY DEF Linked!InitEntry, Ops!InitEntry
<1>2. \A g, e : Linked!Unlink(g, e) = Ops!Unlink(g, e)
  BY DEF Linked!Unlink, Ops!Unlink
<1>3. \A g, e, p, n : Linked!ListAdd(g, e, p, n) = Ops!ListAdd(g, e, p, n)
  BY DEF Linked!ListAdd, Ops!ListAdd
<1> QED
  BY <1>1, <1>2, <1>3 DEF Linked!AddHead, Linked!AddTail

\* The memory g holds the lists c.
LinkedHolds(g, c) ==
  Kept(g, c, Linked!Cells, Linked!Cells \cup {NULL}, Lists, Entries)

\* What is known of entries is true of the lists c and the memory g.
LinkageHolds(g, c, known) ==
  /\ known \in [Entries -> {"raw", "alone", "in"}]
  /\ \A e \in Entries :
       /\ known[e] = "in" <=> ~Off(c, Lists, e)
       /\ known[e] = "alone" => g.next[e] = e /\ g.prev[e] = e

\* A loop is at a place of its list, or past it; the entry that its body may
\* touch is not where it has yet to come.
LoopHolds(c, lp) ==
  /\ lp \in {Linked!NoLoop} \cup
       [on : {TRUE}, list : Lists, safe : BOOLEAN, entry : Entries,
        next_entry : Linked!Cells]
  /\ lp.on => \E j : Placed(c[lp.list], lp.list, lp.entry, lp.next_entry, lp.safe, j)

\* What a loop has yet to meet in the memory g.
RestIn(g, lp) ==
  IF ~lp.on THEN <<>>
  ELSE Linked!From(g.next, IF lp.safe THEN lp.next_entry ELSE g.next[lp.entry],
                   lp.list, Linked!Bound)

\* What SequenceLists may do: to the lists c, to what was popped last and to
\* what a loop has yet to meet.
SequenceTurn(c, r, q, c1, r1, q1) ==
  \/ c1 = c /\ r1 = r /\ q1 = q
  \/ c1 \in Linked!Promise!Results(c) /\ r1 = r /\ q1 = q
  \/ \E l \in Lists : /\ c[l] # <<>> /\ r1 = Head(c[l]) /\ q1 = q
                      /\ c1 = [c EXCEPT ![l] = Tail(@)]
  \/ \E l \in Lists : c[l] = <<>> /\ r1 = NULL /\ q1 = q /\ c1 = c
  \/ \E l \in Lists : /\ q = <<>> /\ c[l] # <<>> /\ q1 = Tail(c[l])
                      /\ c1 = c /\ r1 = r
  \/ q # <<>> /\ q1 = Tail(q) /\ c1 = c /\ r1 = r

\* The inductive invariant of lists: there are sequences, nowhere stored, that
\* the memory holds and that what is known and the loop are right about.
LinkedInv ==
  /\ ret \in Entries \cup {NULL}
  /\ \E c : LinkedHolds(h, c) /\ LinkageHolds(h, c, linkage) /\ LoopHolds(c, loop)

\* No list has an entry, and no loop is going on, to begin with.
LEMMA LinkedInit == Linked!Init => LinkedInv
<1> SUFFICES ASSUME Linked!Init PROVE LinkedInv
  OBVIOUS
<1> DEFINE c == [l \in Lists |-> <<>>]
<1>1. /\ h \in Memories(Linked!Cells, Linked!Cells \cup {NULL})
      /\ \A l \in Lists : h.next[l] = l /\ h.prev[l] = l
  BY DEF Linked!Init, Linked!Cells, Memories
<1>2. \A l \in Lists : c[l] = <<>> /\ c[l] \in Seq(Entries) /\ Len(c[l]) = 0
  OBVIOUS
<1>3. c \in [Lists -> Seq(Entries)]
  OBVIOUS
<1> HIDE DEF c
<1>4. \A l \in Lists : Ring(h, l, c[l])
  BY <1>1, <1>2 DEF Ring, At
<1>5. LinkedHolds(h, c)
  BY <1>1, <1>2, <1>3, <1>4, LibraryAssumption
     DEF LinkedHolds, Kept, Rings, Linked!Cells
<1>6. LinkageHolds(h, c, linkage)
  BY <1>2 DEF Linked!Init, LinkageHolds, Off
<1>7. LoopHolds(c, loop)
  BY DEF Linked!Init, Linked!NoLoop, LoopHolds
<1> QED
  BY <1>5, <1>6, <1>7 DEF LinkedInv, Linked!Init

\* What taking an entry off the lists is.
LEMMA TakeOffIs ==
  ASSUME NEW H, H = Lists, NEW E, NEW c \in [H -> Seq(E)], Once(c, H), NEW e
  PROVE  /\ \A l \in H : \A i \in 1 .. Len(c[l]) : c[l][i] = e =>
              Linked!Promise!TakeOff(c, e) = [c EXCEPT ![l] = Without(@, i)]
         /\ Off(c, H, e) => Linked!Promise!TakeOff(c, e) = c
<1> DEFINE d == Linked!Promise!TakeOff(c, e)
<1>1. d = [l \in H |-> Linked!Promise!Drop(c[l], e)]
  BY DEF Linked!Promise!TakeOff
<1>2. \A l \in H : c[l] \in Seq(E)
                   /\ \A i, j \in 1 .. Len(c[l]) : c[l][i] = c[l][j] => i = j
  BY DEF Once
<1>3. ASSUME NEW l \in H, \A i \in 1 .. Len(c[l]) : c[l][i] # e
      PROVE  Linked!Promise!Drop(c[l], e) = c[l]
  BY <1>2, <1>3, DropIs
<1> HIDE DEF d
<1>4. ASSUME NEW l \in H, NEW i \in 1 .. Len(c[l]), c[l][i] = e
      PROVE  d = [c EXCEPT ![l] = Without(@, i)]
  <2>1. Linked!Promise!Drop(c[l], e) = Without(c[l], i)
    BY <1>2, <1>4, DropIs
  <2>2. ASSUME NEW m \in H \ {l} PROVE Linked!Promise!Drop(c[m], e) = c[m]
    <3>1. \A j \in 1 .. Len(c[m]) : c[m][j] # e
      BY <1>4 DEF Once
    <3> QED
      BY <1>3, <3>1
  <2> QED
    BY <1>1, <2>1, <2>2
<1>5. ASSUME Off(c, H, e) PROVE d = c
  <2>1. \A l \in H : Linked!Promise!Drop(c[l], e) = c[l]
    BY <1>3, <1>5 DEF Off
  <2> QED
    BY <1>1, <2>1
<1> QED
  BY <1>4, <1>5 DEF d

\* An entry taken off its list, if it is on one.
LEMMA UnlinkKeeps ==
  ASSUME NEW g, NEW c, LinkedHolds(g, c), NEW e \in Entries,
         ~Off(c, Lists, e) \/ (g.next[e] = e /\ g.prev[e] = e),
         NEW d, d = Linked!Promise!TakeOff(c, e)
  PROVE  /\ LinkedHolds(Linked!Unlink(g, e), d)
         /\ Off(d, Lists, e)
         /\ \A l \in Lists, x \in Entries :
              OnList(d, l, x) <=> OnList(c, l, x) /\ x # e
         /\ \A x \in Entries : Off(c, Lists, x) =>
              /\ Linked!Unlink(g, e).next[x] = g.next[x]
              /\ Linked!Unlink(g, e).prev[x] = g.prev[x]
<1> DEFINE k == Ops!Unlink(g, e)
<1>1. Linked!Unlink(g, e) = k
  BY LinkedCalls
<1>2. /\ Entries \subseteq Linked!Cells /\ Lists \cap Entries = {}
      /\ NULL \notin Linked!Cells
      /\ c \in [Lists -> Seq(Entries)] /\ Once(c, Lists)
  BY LibraryAssumption DEF Linked!Cells, LinkedHolds, Kept, Rings, Once
<1>3. CASE ~Off(c, Lists, e)
  <2>0. PICK l \in Lists : \E i \in 1 .. Len(c[l]) : c[l][i] = e
    BY <1>3 DEF Off
  <2>1. PICK i \in 1 .. Len(c[l]) : c[l][i] = e
    BY <2>0
  <2> DEFINE d1 == [c EXCEPT ![l] = Without(@, i)]
  <2>5. d = d1
    BY <1>2, <2>1, TakeOffIs
  <2>2. LinkedHolds(k, d1) /\ Off(d1, Lists, e)
    BY <2>1, CutKeeps DEF LinkedHolds
  <2>3. \A m \in Lists, x \in Entries :
          OnList(d1, m, x) <=> OnList(c, m, x) /\ x # e
    BY <2>1, CutOn DEF LinkedHolds
  <2>4. \A x \in Entries : Off(c, Lists, x) => /\ k.next[x] = g.next[x]
                                              /\ k.prev[x] = g.prev[x]
    <3> SUFFICES ASSUME NEW x \in Entries, Off(c, Lists, x)
                 PROVE  k.next[x] = g.next[x] /\ k.prev[x] = g.prev[x]
      OBVIOUS
    <3>1. x \in Linked!Cells /\ x \notin Lists /\ ~OnList(c, l, x)
      BY <1>2 DEF Off, OnList
    <3> QED
      BY <2>1, <3>1, CutTouches DEF LinkedHolds
  <2> HIDE DEF k, d1
  <2> QED
    BY <1>1, <2>2, <2>3, <2>4, <2>5
<1>4. CASE Off(c, Lists, e)
  <2>1. /\ g \in Memories(Linked!Cells, Linked!Cells \cup {NULL})
        /\ e \in Linked!Cells /\ g.next[e] = e /\ g.prev[e] = e
        /\ d = c
    BY <1>2, <1>4, TakeOffIs DEF LinkedHolds, Kept
  <2>2. /\ k \in Memories(Linked!Cells, Linked!Cells \cup {NULL})
        /\ k.next = [g.next EXCEPT ![e] = e] /\ k.prev = [g.prev EXCEPT ![e] = e]
    <3> DEFINE C == Linked!Cells
               X == Linked!Cells \cup {NULL}
    <3>1. C \subseteq X /\ NULL \notin C
      BY <1>2
    <3> HIDE DEF C, X
    <3>2. /\ k \in Memories(C, X)
          /\ k.next = [g.next EXCEPT ![g.prev[e]] = g.next[e]]
          /\ k.prev = [g.prev EXCEPT ![g.next[e]] = g.prev[e]]
      BY <2>1, <3>1, CutLinks DEF C, X
    <3> QED
      BY <2>1, <3>2 DEF C, X
  <2> HIDE DEF k
  <2>3. k.next = g.next /\ k.prev = g.prev
    BY <2>1, <2>2 DEF Memories
  <2>4. k = g
    BY <2>1, <2>2, <2>3 DEF Memories
  <2>5. \A l \in Lists, x \in Entries :
          OnList(c, l, x) <=> OnList(c, l, x) /\ x # e
    BY <1>4, OffIs
  <2> QED
    BY <1>1, <1>4, <2>1, <2>4, <2>5
<1> QED
  BY <1>3, <1>4

\* An entry on no list written, or added at an end of one.
LEMMA InitKeeps ==
  ASSUME NEW g, NEW c, LinkedHolds(g, c), NEW e \in Entries, Off(c, Lists, e)
  PROVE  LET k == Linked!InitEntry(g, e)
         IN  /\ LinkedHolds(k, c) /\ k.next[e] = e /\ k.prev[e] = e
             /\ \A x \in Entries \ {e} : k.next[x] = g.next[x] /\ k.prev[x] = g.prev[x]
<1> DEFINE C == Linked!Cells
           X == Linked!Cells \cup {NULL}
           k == Ops!InitEntry(g, e)
<1>1. /\ g \in Memories(C, X) /\ C \subseteq X /\ e \in C /\ e \notin Lists
      /\ Entries \subseteq C
  BY LibraryAssumption DEF LinkedHolds, Kept
<1>2. Kept(g, c, C, X, Lists, Entries)
  BY DEF LinkedHolds
<1> HIDE DEF C, X
<1>3. /\ k \in Memories(C, X) /\ k.next[e] = e /\ k.prev[e] = e
      /\ \A x \in C \ {e} : k.next[x] = g.next[x] /\ k.prev[x] = g.prev[x]
  BY <1>1, InitLinks
<1> HIDE DEF k
<1>4. Kept(k, c, C, X, Lists, Entries)
  BY <1>1, <1>2, <1>3, OffStays
<1>5. Linked!InitEntry(g, e) = k
  BY LinkedCalls DEF k
<1> QED
  BY <1>1, <1>3, <1>4, <1>5 DEF LinkedHolds, C, X

\* Entry e added to list l by fusion_list_add or fusion_list_add_tail makes
\* lists c lists d, and memory g memory k.
PutAtEnd(g, c, e, l, k, d) ==
  \/ k = Linked!AddHead(g, e, l) /\ d = [c EXCEPT ![l] = <<e>> \o @]
  \/ k = Linked!AddTail(g, e, l) /\ d = [c EXCEPT ![l] = Append(@, e)]

\* An entry that is on no list can be added at the head or tail of one.
LEMMA EndsKeep ==
  ASSUME NEW g, NEW c, LinkedHolds(g, c), NEW e \in Entries, Off(c, Lists, e),
         NEW l \in Lists, NEW k, NEW d,
         PutAtEnd(g, c, e, l, k, d)
  PROVE  /\ LinkedHolds(k, d)
         /\ \A m \in Lists, x \in Entries :
              OnList(d, m, x) <=> OnList(c, m, x) \/ (m = l /\ x = e)
         /\ \A x \in Entries : Off(c, Lists, x) /\ x # e =>
              k.next[x] = g.next[x] /\ k.prev[x] = g.prev[x]
<1>1. Kept(g, c, Linked!Cells, Linked!Cells \cup {NULL}, Lists, Entries)
  BY DEF LinkedHolds
<1>2. PICK i \in 0 .. Len(c[l]) :
        /\ k = Ops!ListAdd(g, e, At(l, c[l], i), At(l, c[l], i + 1))
        /\ d = [c EXCEPT ![l] = InsertAt(@, i, e)]
  <2>1. /\ g.next[l] = At(l, c[l], 1) /\ g.prev[l] = At(l, c[l], Len(c[l]))
        /\ At(l, c[l], 0) = l /\ At(l, c[l], Len(c[l]) + 1) = l /\ Len(c[l]) \in Nat
    BY <1>1, RingCells
  <2>2. /\ Linked!AddHead(g, e, l) = Ops!ListAdd(g, e, At(l, c[l], 0), At(l, c[l], 0 + 1))
        /\ Linked!AddTail(g, e, l)
             = Ops!ListAdd(g, e, At(l, c[l], Len(c[l])), At(l, c[l], Len(c[l]) + 1))
    BY <2>1, LinkedCalls
  <2>3. 0 \in 0 .. Len(c[l]) /\ Len(c[l]) \in 0 .. Len(c[l])
    BY <2>1
  <2>4. /\ <<e>> \o c[l] = InsertAt(c[l], 0, e)
        /\ Append(c[l], e) = InsertAt(c[l], Len(c[l]), e)
    <3> DEFINE s == c[l]
    <3>1. s \in Seq(Entries)
      BY <1>1, RingCells
    <3> HIDE DEF s
    <3>2. <<e>> \o s = InsertAt(s, 0, e) /\ Append(s, e) = InsertAt(s, Len(s), e)
      BY <3>1, SequencesAre
    <3> QED
      BY <3>2 DEF s
  <2> QED
    BY <2>2, <2>3, <2>4 DEF PutAtEnd
<1>3. LinkedHolds(k, d)
  BY <1>1, <1>2, AddKeeps DEF LinkedHolds
<1>4. \A m \in Lists, x \in Entries :
        OnList(d, m, x) <=> OnList(c, m, x) \/ (m = l /\ x = e)
  BY <1>1, <1>2, AddOn DEF Kept, Rings
<1>5. ASSUME NEW x \in Entries, Off(c, Lists, x), x # e
      PROVE  k.next[x] = g.next[x] /\ k.prev[x] = g.prev[x]
  <2>1. x \in Linked!Cells /\ x \notin Lists /\ ~OnList(c, l, x)
    BY <1>5, LibraryAssumption DEF Linked!Cells, Off, OnList
  <2> QED
    BY <1>1, <1>2, <1>5, <2>1, AddTouches
<1> QED
  BY <1>3, <1>4, <1>5

\* A list is empty if its head's link says so.
LEMMA EmptyIs ==
  ASSUME NEW C, NEW X, NEW H, NEW E, NEW g, NEW c, Kept(g, c, C, X, H, E),
         NEW l \in H
  PROVE  /\ g.next[l] = l <=> c[l] = <<>>
         /\ g.next[l] # l => 1 \in 1 .. Len(c[l]) /\ g.next[l] = c[l][1]
<1>1. /\ c[l] \in Seq(E) /\ Len(c[l]) \in Nat /\ l \notin E
      /\ g.next[l] = At(l, c[l], 1)
  BY RingCells DEF Kept
<1>2. CASE c[l] = <<>>
  <2>1. Len(c[l]) = 0
    BY <1>2
  <2> QED
    BY <1>1, <1>2, <2>1 DEF At
<1>3. CASE c[l] # <<>>
  <2>1. Len(c[l]) # 0
    BY <1>1, <1>3
  <2>2. 1 \in 1 .. Len(c[l])
    BY <1>1, <2>1
  <2>3. g.next[l] = c[l][1] /\ c[l][1] \in E
    BY <1>1, <2>2 DEF At
  <2> QED
    BY <1>1, <1>3, <2>2, <2>3
<1> QED
  BY <1>2, <1>3

\* What is known stays true when an entry is taken off, written or added.
LEMMA UnlinkKnown ==
  ASSUME NEW g, NEW c, NEW known, LinkedHolds(g, c), LinkageHolds(g, c, known),
         NEW e \in Entries, known[e] # "raw",
         NEW d, d = Linked!Promise!TakeOff(c, e)
  PROVE  /\ LinkedHolds(Linked!Unlink(g, e), d)
         /\ LinkageHolds(Linked!Unlink(g, e), d, [known EXCEPT ![e] = "raw"])
         /\ Off(d, Lists, e)
<1> DEFINE k == Linked!Unlink(g, e)
<1>1. ~Off(c, Lists, e) \/ (g.next[e] = e /\ g.prev[e] = e)
  BY DEF LinkageHolds
<1>2. /\ LinkedHolds(k, d) /\ Off(d, Lists, e)
      /\ \A l \in Lists, x \in Entries :
           OnList(d, l, x) <=> OnList(c, l, x) /\ x # e
      /\ \A x \in Entries : Off(c, Lists, x) =>
           k.next[x] = g.next[x] /\ k.prev[x] = g.prev[x]
  BY <1>1, UnlinkKeeps
<1> HIDE DEF k
<1>3. \A x \in Entries \ {e} : Off(d, Lists, x) <=> Off(c, Lists, x)
  BY <1>2, OffIs
<1>4. LinkageHolds(k, d, [known EXCEPT ![e] = "raw"])
  BY <1>2, <1>3 DEF LinkageHolds
<1> QED
  BY <1>2, <1>4 DEF k

\* An entry that is initialised is linked to itself.
LEMMA InitKnown ==
  ASSUME NEW g, NEW c, NEW known, LinkedHolds(g, c), LinkageHolds(g, c, known),
         NEW e \in Entries, Off(c, Lists, e)
  PROVE  /\ LinkedHolds(Linked!InitEntry(g, e), c)
         /\ LinkageHolds(Linked!InitEntry(g, e), c, [known EXCEPT ![e] = "alone"])
<1> DEFINE k == Linked!InitEntry(g, e)
<1>1. /\ LinkedHolds(k, c) /\ k.next[e] = e /\ k.prev[e] = e
      /\ \A x \in Entries \ {e} : k.next[x] = g.next[x] /\ k.prev[x] = g.prev[x]
  BY InitKeeps
<1> HIDE DEF k
<1>2. LinkageHolds(k, c, [known EXCEPT ![e] = "alone"])
  BY <1>1 DEF LinkageHolds
<1> QED
  BY <1>1, <1>2 DEF k

\* An entry that is added at the head or tail of a list is known to be in.
LEMMA EndsKnown ==
  ASSUME NEW g, NEW c, NEW known, LinkedHolds(g, c), LinkageHolds(g, c, known),
         NEW e \in Entries, Off(c, Lists, e), NEW l \in Lists, NEW k, NEW d,
         PutAtEnd(g, c, e, l, k, d)
  PROVE  LinkedHolds(k, d) /\ LinkageHolds(k, d, [known EXCEPT ![e] = "in"])
<1>1. /\ LinkedHolds(k, d)
      /\ \A m \in Lists, x \in Entries :
           OnList(d, m, x) <=> OnList(c, m, x) \/ (m = l /\ x = e)
      /\ \A x \in Entries : Off(c, Lists, x) /\ x # e =>
           k.next[x] = g.next[x] /\ k.prev[x] = g.prev[x]
  BY EndsKeep
<1>2. /\ \A x \in Entries \ {e} : Off(d, Lists, x) <=> Off(c, Lists, x)
      /\ ~Off(d, Lists, e)
  BY <1>1, OffIs
<1>3. LinkageHolds(k, d, [known EXCEPT ![e] = "in"])
  BY <1>1, <1>2 DEF LinkageHolds
<1> QED
  BY <1>1, <1>3

\* What a loop that is going on knows.
LEMMA LoopIs ==
  ASSUME NEW c, NEW lp, LoopHolds(c, lp), lp.on
  PROVE  lp \in [on : {TRUE}, list : Lists, safe : BOOLEAN, entry : Entries,
                 next_entry : Linked!Cells]
<1>1. lp # Linked!NoLoop
  BY DEF Linked!NoLoop
<1> QED
  BY <1>1 DEF LoopHolds

\* The rings that a memory holds, as walks follow them.
LEMMA LinkedRings ==
  ASSUME NEW g, NEW c, LinkedHolds(g, c), NEW l \in Lists
  PROVE  /\ c[l] \in Seq(Entries) /\ Len(c[l]) \in Nat /\ l \notin Entries
         /\ NULL \notin Entries
         /\ g.next[l] = At(l, c[l], 1)
         /\ \A i \in 1 .. Len(c[l]) : /\ g.next[c[l][i]] = At(l, c[l], i + 1)
                                      /\ At(l, c[l], i + 1) \in Linked!Cells
         /\ \A i, j \in 1 .. Len(c[l]) : c[l][i] = c[l][j] => i = j
<1>1. Kept(g, c, Linked!Cells, Linked!Cells \cup {NULL}, Lists, Entries)
  BY DEF LinkedHolds
<1>2. /\ c[l] \in Seq(Entries) /\ Len(c[l]) \in Nat /\ l \notin Entries
      /\ NULL \notin Entries /\ Ring(g, l, c[l]) /\ g.next[l] = At(l, c[l], 1)
      /\ \A i, j \in 1 .. Len(c[l]) : c[l][i] = c[l][j] => i = j
  BY <1>1, RingCells, LibraryAssumption DEF Kept, Rings
<1>3. ASSUME NEW i \in 1 .. Len(c[l])
      PROVE  /\ g.next[c[l][i]] = At(l, c[l], i + 1)
             /\ At(l, c[l], i + 1) \in Linked!Cells
  <2>1. i \in 0 .. Len(c[l]) /\ At(l, c[l], i) = c[l][i] /\ i + 1 \in Nat
    BY <1>2 DEF At
  <2> QED
    BY <1>1, <1>2, <2>1, RingCells DEF Ring
<1> QED
  BY <1>2, <1>3

\* A list has no more entries than there are.
LEMMA ListIsShort ==
  ASSUME NEW c, c \in [Lists -> Seq(Entries)],
         \A l, m \in Lists : \A i \in 1 .. Len(c[l]), j \in 1 .. Len(c[m]) :
           c[l][i] = c[m][j] => l = m /\ i = j,
         NEW l \in Lists
  PROVE  Len(c[l]) <= Linked!Bound /\ Linked!Bound \in Nat
<1> DEFINE s == c[l]
<1>1. s \in Seq(Entries) /\ Len(s) \in Nat
      /\ \A i, j \in 1 .. Len(s) : s[i] = s[j] => i = j
  OBVIOUS
<1> HIDE DEF s
<1>2. Len(s) <= Cardinality(Entries) /\ Cardinality(Entries) \in Nat
  BY <1>1, DistinctIsShort, LibraryAssumption
<1>3. Linked!Bound = Cardinality(Entries) + 1
  BY DEF Linked!Bound, Linked!Cardinality, Cardinality
<1> QED
  BY <1>1, <1>2, <1>3 DEF s

\* The lists are walked as those of the module of list operations are.
LEMMA LinkedFrom ==
  /\ \A f, e, l, b : Linked!From(f, e, l, b) = Ops!From(f, e, l, b)
  /\ \A g, l, b : Linked!OnList(g, l, b) = Ops!OnList(g, l, b)
  /\ \A g, l, b : Linked!Backwards(g, l, b) = Ops!Backwards(g, l, b)
BY DEF Linked!OnList, Linked!Backwards, Ops!OnList, Ops!Backwards, Linked!From,
       Ops!From, Linked!Last, Ops!Last

\* A loop has yet to meet what is behind its place.
LEMMA RestIs ==
  ASSUME NEW g, NEW c, NEW lp, NEW j
  PROVE  LinkedHolds(g, c) /\ LoopHolds(c, lp) /\ lp.on
         /\ Placed(c[lp.list], lp.list, lp.entry, lp.next_entry, lp.safe, j)
           => /\ RestIn(g, lp) = Behind(c[lp.list], j)
              /\ (IF lp.safe THEN lp.next_entry ELSE g.next[lp.entry])
                   = At(lp.list, c[lp.list], j + 1)
<1> DEFINE l == lp.list
           s == c[lp.list]
           e == IF lp.safe THEN lp.next_entry ELSE g.next[lp.entry]
           b == Linked!Bound
           f == g.next
<1>1. ASSUME LinkedHolds(g, c), LoopHolds(c, lp), lp.on,
             Placed(c[lp.list], lp.list, lp.entry, lp.next_entry, lp.safe, j)
      PROVE  RestIn(g, lp) = Behind(s, j) /\ e = At(l, s, j + 1)
  <2>1. l \in Lists
    <3>1. lp \in [on : {TRUE}, list : Lists, safe : BOOLEAN, entry : Entries,
                  next_entry : Linked!Cells]
      BY <1>1, LoopIs
    <3> QED
      BY <3>1
  <2>2. /\ s \in Seq(Entries) /\ Len(s) \in Nat /\ l \notin Entries /\ NULL \notin Entries
        /\ \A i \in 1 .. Len(s) : f[s[i]] = At(l, s, i + 1)
    BY <1>1, <2>1, LinkedRings
  <2>3. Len(s) <= b /\ b \in Nat
    <3>1. /\ c \in [Lists -> Seq(Entries)]
          /\ \A m, n \in Lists : \A i \in 1 .. Len(c[m]), k \in 1 .. Len(c[n]) :
               c[m][i] = c[n][k] => m = n /\ i = k
      BY <1>1 DEF LinkedHolds, Kept, Rings
    <3> QED
      BY <2>1, <3>1, ListIsShort
  <2>4. j \in 0 .. Len(s) /\ e = At(l, s, j + 1)
    BY <1>1, <2>2 DEF Placed
  <2>5. RestIn(g, lp) = Ops!From(f, e, l, b)
    BY <1>1, LinkedFrom DEF RestIn
  <2> HIDE DEF l, s, e, b, f
  <2>6. Ops!From(f, At(l, s, j + 1), l, b) = Behind(s, j)
    <3>1. Chained(Entries, f, l, b, s)
      BY <2>2, <2>3 DEF Chained
    <3> QED
      BY <2>4, <3>1, WalkIsBehind
  <2> QED
    BY <2>4, <2>5, <2>6
<1> QED
  BY <1>1

\* A splice sets the four links at both ends of what is moved.
LEMMA SpliceLinks ==
  ASSUME NEW C, NEW X, NEW g \in Memories(C, X), C \subseteq X, NEW src \in C,
         g.next[src] \in C, g.prev[src] \in C, NEW p \in C, NEW n \in C
  PROVE  LET m == Linked!SpliceBetween(g, src, p, n)
         IN  /\ m \in Memories(C, X)
             /\ m.next = [g.next EXCEPT ![p] = g.next[src], ![g.prev[src]] = n]
             /\ m.prev = [g.prev EXCEPT ![g.next[src]] = p, ![n] = g.prev[src]]
<1> DEFINE N == g.next
           P == g.prev
           first == N[src]
           last == P[src]
<1>1. /\ g = [next |-> N, prev |-> P] /\ N \in [C -> X] /\ P \in [C -> X]
      /\ first \in C /\ last \in C
  BY DEF Memories
<1>2. Linked!SpliceBetween(g, src, p, n)
        = [g EXCEPT !.prev[first] = p, !.next[p] = first,
                    !.next[last] = n, !.prev[n] = last]
  BY DEF Linked!SpliceBetween
<1> HIDE DEF first, last, N, P
<1> DEFINE a == [next |-> N, prev |-> [P EXCEPT ![first] = p]]
           b == [next |-> [N EXCEPT ![p] = first, ![last] = n],
                 prev |-> [P EXCEPT ![first] = p]]
<1>3. Linked!SpliceBetween(g, src, p, n)
        = [next |-> [N EXCEPT ![p] = first, ![last] = n],
           prev |-> [P EXCEPT ![first] = p, ![n] = last]]
  BY <1>1, <1>2
<1> QED
  BY <1>1, <1>3 DEF Memories, N, P, first, last

\* What one call can make of lists is among what calls can.
LEMMA ResultsAre ==
  ASSUME NEW c
  PROVE  /\ \A e \in Entries :
              Linked!Promise!TakeOff(c, e) \in Linked!Promise!Results(c)
         /\ \A e \in Entries, l \in Lists :
              /\ Linked!Promise!PutHead(c, e, l) \in Linked!Promise!Results(c)
              /\ Linked!Promise!PutTail(c, e, l) \in Linked!Promise!Results(c)
         /\ \A src, dst \in Lists :
              /\ Linked!Promise!PrependAll(c, src, dst) \in Linked!Promise!Results(c)
              /\ Linked!Promise!AppendAll(c, src, dst) \in Linked!Promise!Results(c)
BY DEF Linked!Promise!Results

\* The entries of one list after those of another.
LEMMA MoveAllKeeps ==
  ASSUME NEW g, NEW c, NEW known, LinkedHolds(g, c), LinkageHolds(g, c, known),
         NEW src \in Lists, NEW dst \in Lists, src # dst,
         NEW k, k \in {Linked!AddList(g, src, dst), Linked!Splice(g, src, dst),
                       Linked!SpliceTail(g, src, dst)}
  PROVE  \E d \in Linked!Promise!Results(c) \cup {c} :
           LinkedHolds(k, d) /\ LinkageHolds(k, d, known)
<1> DEFINE C == Linked!Cells
           X == Linked!Cells \cup {NULL}
           s == c[src]
           t == c[dst]
           first == g.next[src]
           last == g.prev[src]
<1>1. Kept(g, c, C, X, Lists, Entries)
  BY DEF LinkedHolds
<1>2. CASE g.next[src] = src
  <2>1. k = g
    BY <1>2 DEF Linked!AddList, Linked!Splice, Linked!SpliceTail, Linked!Empty
  <2> QED
    BY <2>1
<1>3. CASE g.next[src] # src
  <2>1. /\ s # <<>> /\ s \in Seq(Entries) /\ t \in Seq(Entries)
        /\ Len(s) \in Nat /\ Len(t) \in Nat /\ 1 \in 1 .. Len(s)
        /\ first = s[1] /\ last = At(src, s, Len(s))
        /\ g.next[dst] = At(dst, t, 1) /\ g.prev[dst] = At(dst, t, Len(t))
        /\ At(dst, t, 0) = dst /\ At(dst, t, Len(t) + 1) = dst
    BY <1>1, <1>3, EmptyIs, RingCells
  <2>2. Len(s) \in 1 .. Len(s) /\ last = s[Len(s)]
    BY <2>1 DEF At
  <2>3. /\ g \in Memories(C, X) /\ C \subseteq X /\ Lists \subseteq C
        /\ Entries \subseteq C /\ Lists \cap Entries = {}
        /\ \A l, m \in Lists : \A i \in 1 .. Len(c[l]), j \in 1 .. Len(c[m]) :
             c[l][i] = c[m][j] => l = m /\ i = j
    BY <1>1 DEF Kept, Rings
  <2>4. first \in Entries /\ last \in Entries
    BY <2>1, <2>2
  <2>5. \A j \in Nat : At(dst, t, j) # first /\ At(dst, t, j) # last
    BY <2>1, <2>2, <2>3, <2>4 DEF At
  <2>6. PICK i \in {0, Len(t)} :
          /\ k \in Memories(C, X)
          /\ k.next = [g.next EXCEPT ![last] = At(dst, t, i + 1),
                                     ![At(dst, t, i)] = first, ![src] = src]
          /\ k.prev = [g.prev EXCEPT ![At(dst, t, i + 1)] = last,
                                     ![first] = At(dst, t, i), ![src] = src]
    <3> DEFINE Between(g2, p, n) ==
                 /\ g2 \in Memories(C, X)
                 /\ g2.next = [g.next EXCEPT ![last] = n, ![p] = first, ![src] = src]
                 /\ g2.prev = [g.prev EXCEPT ![n] = last, ![first] = p, ![src] = src]
    <3>1. \A j \in Nat : At(dst, t, j) \in C
      BY <1>1, RingCells
    <3>2. /\ g.next[dst] = At(dst, t, 0 + 1) /\ At(dst, t, 0) = dst
          /\ dst # last /\ g.next[dst] # first /\ g.next[dst] # src
          /\ g.next[dst] \in C
      <4>1. 0 + 1 = 1 /\ src # dst /\ At(dst, t, 1) # src
        BY <2>1, <2>3 DEF At
      <4> QED
        BY <2>1, <2>3, <2>4, <2>5, <3>1, <4>1
    <3>3. /\ g.prev[dst] = At(dst, t, Len(t)) /\ At(dst, t, Len(t) + 1) = dst
          /\ g.prev[dst] # last /\ dst # first /\ g.prev[dst] # src
          /\ g.prev[dst] \in C
      <4>1. At(dst, t, Len(t)) # src
        BY <2>1, <2>3 DEF At
      <4> QED
        BY <2>1, <2>3, <2>4, <2>5, <3>1, <4>1
    <3>4. src \in C /\ dst \in C /\ first \in C /\ last \in C
      BY <2>3, <2>4
    <3> HIDE DEF C, X, s, t
    <3>5. ASSUME NEW p \in C, NEW n \in C, p # last, n # first
          PROVE  Between(Linked!InitEntry(Linked!SpliceBetween(g, src, p, n), src),
                         p, n)
      <4> DEFINE b == Linked!InitEntry(Linked!SpliceBetween(g, src, p, n), src)
      <4> DEFINE m == Linked!SpliceBetween(g, src, p, n)
      <4>4. /\ m \in Memories(C, X)
            /\ m.next = [g.next EXCEPT ![p] = first, ![last] = n]
            /\ m.prev = [g.prev EXCEPT ![first] = p, ![n] = last]
        BY <2>3, <3>4, SpliceLinks
      <4> HIDE DEF m
      <4>5. /\ b \in Memories(C, X)
            /\ b.next = [m.next EXCEPT ![src] = src]
            /\ b.prev = [m.prev EXCEPT ![src] = src]
        BY <2>3, <3>4, <4>4 DEF m, Memories, Linked!InitEntry
      <4> HIDE DEF b
      <4>1. /\ b.next = [g.next EXCEPT ![p] = first, ![last] = n, ![src] = src]
            /\ b.prev = [g.prev EXCEPT ![first] = p, ![n] = last, ![src] = src]
        BY <4>4, <4>5
      <4>2. /\ [g.next EXCEPT ![p] = first, ![last] = n, ![src] = src]
                 = [g.next EXCEPT ![last] = n, ![p] = first, ![src] = src]
            /\ [g.prev EXCEPT ![first] = p, ![n] = last, ![src] = src]
                 = [g.prev EXCEPT ![n] = last, ![first] = p, ![src] = src]
        BY <3>5
      <4> QED
        BY <4>1, <4>2, <4>5 DEF b
    <3>6. ASSUME k = Linked!AddList(g, src, dst)
          PROVE  Between(k, dst, g.next[dst])
      <4> DEFINE p == dst
                 n == g.next[dst]
                 a == [next |-> [g.next EXCEPT ![last] = n, ![p] = first],
                       prev |-> [g.prev EXCEPT ![n] = last, ![first] = p]]
      <4>1. k = [a EXCEPT !.prev[src] = src, !.next[src] = src]
        BY <1>3, <2>3, <3>2, <3>4, <3>6
           DEF Memories, Linked!AddList, Linked!Empty
      <4>2. k = [next |-> [g.next EXCEPT ![last] = n, ![p] = first, ![src] = src],
                 prev |-> [g.prev EXCEPT ![n] = last, ![first] = p, ![src] = src]]
        BY <4>1
      <4> HIDE DEF a
      <4>3. k \in Memories(C, X)
        BY <2>3, <3>2, <3>4, <4>2 DEF Memories
      <4> QED
        BY <4>2, <4>3
    <3>7. ASSUME k = Linked!Splice(g, src, dst)
          PROVE  Between(k, dst, g.next[dst])
      BY <1>3, <3>2, <3>4, <3>5, <3>7 DEF Linked!Splice, Linked!Empty
    <3>8. ASSUME k = Linked!SpliceTail(g, src, dst)
          PROVE  Between(k, g.prev[dst], dst)
      BY <1>3, <3>3, <3>4, <3>5, <3>8 DEF Linked!SpliceTail, Linked!Empty
    <3> HIDE DEF Between
    <3>9. Between(k, dst, g.next[dst]) \/ Between(k, g.prev[dst], dst)
      BY <3>6, <3>7, <3>8
    <3>10. \E i \in {0, Len(t)} : Between(k, At(dst, t, i), At(dst, t, i + 1))
      BY <3>2, <3>3, <3>9
    <3>11. PICK i \in {0, Len(t)} :
             Between(k, At(dst, t, i), At(dst, t, i + 1))
      BY <3>10
    <3> QED
      BY <3>11 DEF Between
  <2> DEFINE d == [c EXCEPT ![src] = <<>>, ![dst] = Spliced(@, i, c[src])]
  <2>12. i \in 0 .. Len(t)
    BY <2>1
  <2>13. d \in Linked!Promise!Results(c)
    <3>1. d \in {Linked!Promise!PrependAll(c, src, dst),
                 Linked!Promise!AppendAll(c, src, dst)}
      <4>1. s \o t = Spliced(t, 0, s) /\ t \o s = Spliced(t, Len(t), s)
        BY <2>1, JoinsAre
      <4> QED
        BY <4>1 DEF Linked!Promise!PrependAll, Linked!Promise!AppendAll
    <3> HIDE DEF d
    <3> QED
      BY <3>1, ResultsAre
  <2>7. Kept(k, d, C, X, Lists, Entries)
    BY <1>1, <2>1, <2>6, <2>12, SpliceKeeps
  <2>8. \A m \in Lists, x \in Entries :
          OnList(d, m, x)
            <=> m # src /\ (OnList(c, m, x) \/ (m = dst /\ OnList(c, src, x)))
    BY <1>1, <2>12, SpliceOn DEF Kept, Rings
  <2> HIDE DEF d
  <2>9. \A x \in Entries : Off(d, Lists, x) <=> Off(c, Lists, x)
    BY <2>8, OffIs
  <2>10. ASSUME NEW x \in Entries, Off(c, Lists, x)
         PROVE  k.next[x] = g.next[x] /\ k.prev[x] = g.prev[x]
    <3>1. x # first /\ x # last /\ x # src /\ x \in C
      BY <2>1, <2>2, <2>3, <2>10 DEF Off
    <3>2. \A j \in Nat : At(dst, t, j) # x
      BY <2>1, <2>3, <2>10 DEF Off, At
    <3>3. x # At(dst, t, i) /\ x # At(dst, t, i + 1)
      BY <2>1, <3>2
    <3> HIDE DEF s, t, C, X
    <3> QED
      BY <2>3, <2>6, <3>1, <3>3 DEF Memories
  <2>11. LinkageHolds(k, d, known)
    BY <2>9, <2>10 DEF LinkageHolds
  <2> QED
    BY <2>7, <2>11, <2>13 DEF LinkedHolds
<1> QED
  BY <1>2, <1>3

-----------------------------------------------------------------------------
(* The steps of LinkedLists, as steps of SequenceLists.                    *)

\* What stays behind a safe loop, and where it is, when lists c become d.
StaysBehind(c, d, lp) ==
  \A j : Placed(c[lp.list], lp.list, lp.entry, lp.next_entry, TRUE, j) =>
    \E j1 : /\ Placed(d[lp.list], lp.list, lp.entry, lp.next_entry, TRUE, j1)
            /\ Behind(d[lp.list], j1) = Behind(c[lp.list], j)

\* A loop keeps its place, and has yet to meet what it had, when what is behind
\* it stays as it is.
LEMMA PlaceKeeps ==
  ASSUME NEW g, NEW c, LinkedHolds(g, c), NEW g1, NEW d, LinkedHolds(g1, d),
         NEW lp, LoopHolds(c, lp),
         lp.on => lp.safe /\ StaysBehind(c, d, lp)
  PROVE  LoopHolds(d, lp) /\ RestIn(g1, lp) = RestIn(g, lp)
<1>1. CASE ~lp.on
  BY <1>1 DEF LoopHolds, RestIn
<1>2. CASE lp.on
  <2>1. lp.safe = TRUE /\ lp \in [on : {TRUE}, list : Lists, safe : BOOLEAN,
                                  entry : Entries, next_entry : Linked!Cells]
    BY <1>2, LoopIs
  <2>2. PICK j : Placed(c[lp.list], lp.list, lp.entry, lp.next_entry, lp.safe, j)
    BY <1>2 DEF LoopHolds
  <2>3. PICK j1 : /\ Placed(d[lp.list], lp.list, lp.entry, lp.next_entry, lp.safe, j1)
                  /\ Behind(d[lp.list], j1) = Behind(c[lp.list], j)
    BY <1>2, <2>1, <2>2 DEF StaysBehind
  <2>4. LoopHolds(d, lp)
    BY <1>2, <2>1, <2>3 DEF LoopHolds
  <2>5. RestIn(g, lp) = Behind(c[lp.list], j)
    BY <1>2, <2>2, RestIs
  <2>6. RestIn(g1, lp) = Behind(d[lp.list], j1)
    BY <1>2, <2>3, <2>4, RestIs
  <2> QED
    BY <2>3, <2>4, <2>5, <2>6
<1> QED
  BY <1>1, <1>2

\* The body of a safe loop may take the entry it is at off its list.
LEMMA BodyTakesOff ==
  ASSUME NEW g, NEW c, LinkedHolds(g, c), NEW g1, NEW d, LinkedHolds(g1, d),
         NEW lp, LoopHolds(c, lp), NEW e \in Entries,
         lp.on => lp.safe /\ lp.entry = e,
         d = Linked!Promise!TakeOff(c, e)
  PROVE  LoopHolds(d, lp) /\ RestIn(g1, lp) = RestIn(g, lp)
<1>1. ASSUME lp.on PROVE StaysBehind(c, d, lp)
  <2> SUFFICES ASSUME NEW j,
                      Placed(c[lp.list], lp.list, lp.entry, lp.next_entry, TRUE, j)
               PROVE  \E j1 : /\ Placed(d[lp.list], lp.list, lp.entry,
                                        lp.next_entry, TRUE, j1)
                              /\ Behind(d[lp.list], j1) = Behind(c[lp.list], j)
    BY DEF StaysBehind
  <2>0. lp \in [on : {TRUE}, list : Lists, safe : BOOLEAN, entry : Entries,
                next_entry : Linked!Cells]
    BY <1>1, LoopIs
  <2> DEFINE l == lp.list
             s == c[l]
             n == lp.next_entry
  <2>1. l \in Lists /\ lp.entry = e
    BY <1>1, <2>0
  <2>2. /\ s \in Seq(Entries)
        /\ \A i, k \in 1 .. Len(s) : s[i] = s[k] => i = k
    BY <2>1, LinkedRings
  <2>3. d[l] = Linked!Promise!Drop(s, e)
    BY <2>1 DEF Linked!Promise!TakeOff
  <2>4. Placed(s, l, e, n, TRUE, j)
    BY <2>1
  <2> HIDE DEF l, s, n
  <2>5. CASE \A i \in 1 .. Len(s) : s[i] # e
    <3>1. d[l] = s
      BY <2>2, <2>3, <2>5, DropIs
    <3> QED
      BY <2>1, <2>4, <3>1 DEF l, s, n
  <2>6. CASE \E i \in 1 .. Len(s) : s[i] = e
    <3>1. PICK i \in 1 .. Len(s) : s[i] = e
      BY <2>6
    <3>2. d[l] = Without(s, i)
      BY <2>2, <2>3, <3>1, DropIs
    <3>3. /\ Placed(Without(s, i), l, s[i], n, TRUE, j - 1)
          /\ Behind(Without(s, i), j - 1) = Behind(s, j)
      <4>1. s \in Seq(Entries) /\ i \in 1 .. Len(s) /\ Placed(s, l, s[i], n, TRUE, j)
        BY <2>2, <2>4, <3>1
      <4> QED
        BY <4>1, CutPlaced
    <3> QED
      BY <2>1, <3>1, <3>2, <3>3 DEF l, s, n
  <2> QED
    BY <2>5, <2>6
<1> QED
  BY <1>1, PlaceKeeps

\* Or put it at the head of any list, once it is off.
LEMMA BodyPutsFirst ==
  ASSUME NEW g, NEW c, LinkedHolds(g, c), NEW g1, NEW d, LinkedHolds(g1, d),
         NEW lp, LoopHolds(c, lp), NEW e \in Entries, NEW m \in Lists,
         lp.on => lp.safe,
         d = [c EXCEPT ![m] = <<e>> \o @] \/
           (d = [c EXCEPT ![m] = Append(@, e)] /\ ~(lp.on /\ lp.list = m))
  PROVE  LoopHolds(d, lp) /\ RestIn(g1, lp) = RestIn(g, lp)
<1>1. ASSUME lp.on PROVE StaysBehind(c, d, lp)
  <2> SUFFICES ASSUME NEW j,
                      Placed(c[lp.list], lp.list, lp.entry, lp.next_entry, TRUE, j)
               PROVE  \E j1 : /\ Placed(d[lp.list], lp.list, lp.entry,
                                        lp.next_entry, TRUE, j1)
                              /\ Behind(d[lp.list], j1) = Behind(c[lp.list], j)
    BY DEF StaysBehind
  <2>0. lp \in [on : {TRUE}, list : Lists, safe : BOOLEAN, entry : Entries,
                next_entry : Linked!Cells]
    BY <1>1, LoopIs
  <2> DEFINE l == lp.list
             s == c[l]
             n == lp.next_entry
             x == lp.entry
  <2>1. l \in Lists
    BY <2>0
  <2>2. s \in Seq(Entries) /\ c \in [Lists -> Seq(Entries)]
    BY <2>1, LinkedRings DEF LinkedHolds, Kept, Rings
  <2>4. Placed(s, l, x, n, TRUE, j)
    OBVIOUS
  <2>5. CASE l # m
    <3>1. d[l] = s
      BY <2>1, <2>2, <2>5
    <3> QED
      BY <3>1
  <2>6. CASE l = m
    <3>1. d[l] = InsertAt(s, 0, e)
      <4>1. d = [c EXCEPT ![m] = <<e>> \o @]
        BY <1>1, <2>6
      <4>2. d[l] = <<e>> \o s
        BY <2>1, <2>2, <2>6, <4>1
      <4> HIDE DEF s
      <4> QED
        BY <2>2, <4>2, SequencesAre
    <3> HIDE DEF l, s, n, x
    <3>3. /\ Placed(InsertAt(s, 0, e), l, x, n, TRUE, j + 1)
          /\ Behind(InsertAt(s, 0, e), j + 1) = Behind(s, j)
      <4>1. s \in Seq(Entries) /\ e \in Entries
        BY <2>2
      <4>2. Placed(InsertAt(s, 0, e), l, x, n, TRUE, j + 1)
        BY <2>4, <4>1, FirstPlaced
      <4>3. Behind(InsertAt(s, 0, e), j + 1) = Behind(s, j)
        <5>1. j \in 0 .. Len(s)
          BY <2>4 DEF Placed
        <5> QED
          BY <4>1, <5>1, FirstBehind
      <4> QED
        BY <4>2, <4>3
    <3> QED
      BY <3>1, <3>3 DEF l, s, n, x
  <2> QED
    BY <2>5, <2>6
<1> QED
  BY <1>1, PlaceKeeps

\* A loop that is at the i-th entry of its list, or begins at its first.
LEMMA GoesOn ==
  ASSUME NEW g, NEW c, LinkedHolds(g, c), NEW l \in Lists,
         NEW i \in 1 .. Len(c[l]), NEW safe \in BOOLEAN,
         NEW lp, lp = [on |-> TRUE, list |-> l, safe |-> safe, entry |-> c[l][i],
                       next_entry |-> g.next[c[l][i]]]
  PROVE  LoopHolds(c, lp) /\ RestIn(g, lp) = Behind(c[l], i)
<1> DEFINE s == c[l]
           n == g.next[c[l][i]]
<1>1. /\ s \in Seq(Entries) /\ n = At(l, s, i + 1) /\ n \in Linked!Cells
      /\ \A j, k \in 1 .. Len(s) : s[j] = s[k] => j = k
  BY LinkedRings
<1>2. s[i] \in Entries
  BY <1>1
<1>3. lp = [on |-> TRUE, list |-> l, safe |-> safe, entry |-> s[i], next_entry |-> n]
  OBVIOUS
<1>4. /\ lp.on = TRUE /\ lp.list = l /\ lp.safe = safe /\ lp.entry = s[i]
      /\ lp.next_entry = n
  BY <1>3
<1> HIDE DEF s, n
<1>5. Placed(s, l, s[i], n, safe, i)
  BY <1>1, PlacedAt DEF s
<1>6. Placed(c[lp.list], lp.list, lp.entry, lp.next_entry, lp.safe, i)
  BY <1>4, <1>5 DEF s
<1>7. LoopHolds(c, lp)
  BY <1>1, <1>2, <1>3, <1>4, <1>6 DEF LoopHolds
<1>8. RestIn(g, lp) = Behind(c[lp.list], i)
  BY <1>4, <1>6, <1>7, RestIs
<1> QED
  BY <1>4, <1>7, <1>8

\* Every operation on lists and every step of a loop keeps what the memory, what
\* is known and the loop hold of the lists, and changes these as SequenceLists
\* says.
LEMMA LinkedTurns ==
  ASSUME [Linked!Next]_(Linked!list_vars), ret \in Entries \cup {NULL},
         NEW c, LinkedHolds(h, c), LinkageHolds(h, c, linkage), LoopHolds(c, loop)
  PROVE  \E d : /\ ret' \in Entries \cup {NULL}
                /\ LinkedHolds(h', d) /\ LinkageHolds(h', d, linkage')
                /\ LoopHolds(d, loop')
                /\ SequenceTurn(c, ret, RestIn(h, loop), d, ret', RestIn(h', loop'))
<1> DEFINE To(d) == /\ ret' \in Entries \cup {NULL}
                    /\ LinkedHolds(h', d) /\ LinkageHolds(h', d, linkage')
                    /\ LoopHolds(d, loop')
           Turn(d) == SequenceTurn(c, ret, RestIn(h, loop), d, ret', RestIn(h', loop'))
           Goal == \E d : To(d) /\ Turn(d)
<1>1. SUFFICES Goal
  OBVIOUS
<1>2. /\ c \in [Lists -> Seq(Entries)]
      /\ linkage \in [Entries -> {"raw", "alone", "in"}]
      /\ NULL \notin Entries
      /\ Kept(h, c, Linked!Cells, Linked!Cells \cup {NULL}, Lists, Entries)
  BY LibraryAssumption DEF LinkedHolds, LinkageHolds, Kept, Rings
<1>3. ASSUME NEW d, To(d), ret' = ret, RestIn(h', loop') = RestIn(h, loop),
             d \in Linked!Promise!Results(c) \cup {c}
      PROVE  Goal
  BY <1>3 DEF SequenceTurn
<1>14. ASSUME NEW d, ~loop.on, loop' = loop
       PROVE  LoopHolds(d, loop') /\ RestIn(h', loop') = RestIn(h, loop)
  BY <1>14 DEF LoopHolds, RestIn
<1>4. ASSUME NEW e \in Entries, Linked!Initialise(e) PROVE Goal
  <2>1. /\ linkage[e] = "raw" /\ ~loop.on
        /\ h' = Linked!InitEntry(h, e) /\ linkage' = [linkage EXCEPT ![e] = "alone"]
        /\ ret' = ret /\ loop' = loop
    BY <1>4 DEF Linked!Initialise, Linked!Becomes
  <2>2. Off(c, Lists, e)
    BY <2>1 DEF LinkageHolds
  <2>3. LinkedHolds(h', c) /\ LinkageHolds(h', c, linkage')
    BY <2>1, <2>2, InitKnown
  <2>4. LoopHolds(c, loop') /\ RestIn(h', loop') = RestIn(h, loop)
    BY <1>14, <2>1
  <2>5. To(c)
    BY <2>1, <2>3, <2>4
  <2> QED
    BY <1>3, <2>1, <2>4, <2>5
<1>5. ASSUME NEW e \in Entries, Linked!Delete(e) PROVE Goal
  <2> DEFINE d == Linked!Promise!TakeOff(c, e)
  <2>1. /\ linkage[e] # "raw" /\ Linked!MayTouch(e)
        /\ ret' = ret /\ loop' = loop
        /\ \/ /\ h' = Linked!Del(h, e) /\ linkage' = [linkage EXCEPT ![e] = "alone"]
           \/ /\ h' = Linked!Unlink(h, e) /\ linkage' = [linkage EXCEPT ![e] = "raw"]
    BY <1>5 DEF Linked!Delete, Linked!Becomes
  <2>2. /\ LinkedHolds(Linked!Unlink(h, e), d)
        /\ LinkageHolds(Linked!Unlink(h, e), d, [linkage EXCEPT ![e] = "raw"])
        /\ Off(d, Lists, e)
    BY <2>1, UnlinkKnown
  <2>3. loop.on => loop.safe /\ loop.entry = e
    BY <2>1 DEF Linked!MayTouch
  <2>4. d \in Linked!Promise!Results(c)
    BY ResultsAre
  <2>5. LinkedHolds(h', d) /\ LinkageHolds(h', d, linkage')
    <3>1. CASE h' = Linked!Unlink(h, e) /\ linkage' = [linkage EXCEPT ![e] = "raw"]
      BY <2>2, <3>1
    <3>2. CASE h' = Linked!Del(h, e) /\ linkage' = [linkage EXCEPT ![e] = "alone"]
      <4>1. h' = Linked!InitEntry(Linked!Unlink(h, e), e)
        BY <3>2 DEF Linked!Del
      <4>2. linkage' = [[linkage EXCEPT ![e] = "raw"] EXCEPT ![e] = "alone"]
        BY <1>2, <3>2
      <4> HIDE DEF d
      <4> QED
        BY <2>2, <4>1, <4>2, InitKnown
    <3> QED
      BY <2>1, <3>1, <3>2
  <2>6. LoopHolds(d, loop) /\ RestIn(h', loop) = RestIn(h, loop)
    <3> DEFINE g1 == h'
    <3>1. LinkedHolds(g1, d) /\ d = Linked!Promise!TakeOff(c, e)
      BY <2>5
    <3> HIDE DEF g1, d
    <3>2. LoopHolds(d, loop) /\ RestIn(g1, loop) = RestIn(h, loop)
      BY <2>3, <3>1, BodyTakesOff
    <3> QED
      BY <3>2 DEF g1
  <2> HIDE DEF d
  <2> QED
    BY <1>3, <2>1, <2>4, <2>5, <2>6
<1>6. ASSUME NEW e \in Entries, NEW l \in Lists, Linked!Add(e, l) PROVE Goal
  <2>1. /\ linkage[e] # "in" /\ ~loop.on
        /\ h' \in {Linked!AddHead(h, e, l), Linked!AddTail(h, e, l)}
        /\ linkage' = [linkage EXCEPT ![e] = "in"]
        /\ ret' = ret /\ loop' = loop
    BY <1>6 DEF Linked!Add, Linked!Becomes
  <2>2. Off(c, Lists, e)
    BY <2>1 DEF LinkageHolds
  <2>3. PICK d : \/ h' = Linked!AddHead(h, e, l) /\ d = [c EXCEPT ![l] = <<e>> \o @]
                 \/ h' = Linked!AddTail(h, e, l) /\ d = [c EXCEPT ![l] = Append(@, e)]
    BY <2>1
  <2>4. LinkedHolds(h', d) /\ LinkageHolds(h', d, linkage')
    <3> DEFINE k == h'
    <3>1. PutAtEnd(h, c, e, l, k, d)
      BY <2>3 DEF PutAtEnd
    <3> HIDE DEF k
    <3>2. LinkedHolds(k, d) /\ LinkageHolds(k, d, [linkage EXCEPT ![e] = "in"])
      BY <2>2, <3>1, EndsKnown
    <3> QED
      BY <2>1, <3>2 DEF k
  <2>5. d \in Linked!Promise!Results(c)
    <3>1. Linked!Promise!TakeOff(c, e) = c
      <4>1. Once(c, Lists)
        BY <1>2 DEF Kept, Rings, Once
      <4> QED
        BY <1>2, <2>2, <4>1, TakeOffIs
    <3>2. d = Linked!Promise!PutHead(c, e, l) \/ d = Linked!Promise!PutTail(c, e, l)
      BY <2>3, <3>1 DEF Linked!Promise!PutHead, Linked!Promise!PutTail
    <3> QED
      BY <3>2, ResultsAre
  <2>6. LoopHolds(d, loop') /\ RestIn(h', loop') = RestIn(h, loop)
    BY <1>14, <2>1
  <2> QED
    BY <1>3, <2>1, <2>4, <2>5, <2>6
<1>7. ASSUME NEW e \in Entries, NEW l \in Lists, Linked!Move(e, l) PROVE Goal
  <2> DEFINE g == Linked!Unlink(h, e)
             known == [linkage EXCEPT ![e] = "raw"]
             b == Linked!Promise!TakeOff(c, e)
  <2>1. /\ linkage[e] # "raw" /\ Linked!MayTouch(e)
        /\ \/ h' = Linked!MoveHead(h, e, l)
           \/ h' = Linked!MoveTail(h, e, l) /\ ~(loop.on /\ loop.list = l)
        /\ linkage' = [linkage EXCEPT ![e] = "in"]
        /\ ret' = ret /\ loop' = loop
    BY <1>7 DEF Linked!Move, Linked!Becomes
  <2>2. /\ \/ h' = Linked!AddHead(g, e, l)
           \/ h' = Linked!AddTail(g, e, l) /\ ~(loop.on /\ loop.list = l)
        /\ linkage' = [known EXCEPT ![e] = "in"]
    BY <1>2, <2>1 DEF Linked!MoveHead, Linked!MoveTail
  <2>3. LinkedHolds(g, b) /\ LinkageHolds(g, b, known) /\ Off(b, Lists, e)
    BY <2>1, UnlinkKnown
  <2>4. loop.on => loop.safe /\ loop.entry = e
    BY <2>1 DEF Linked!MayTouch
  <2>5. LoopHolds(b, loop) /\ RestIn(g, loop) = RestIn(h, loop)
    <3>1. b = Linked!Promise!TakeOff(c, e)
      OBVIOUS
    <3> HIDE DEF g, b
    <3> QED
      BY <2>3, <2>4, <3>1, BodyTakesOff
  <2>6. /\ [b EXCEPT ![l] = <<e>> \o @] = Linked!Promise!PutHead(c, e, l)
        /\ [b EXCEPT ![l] = Append(@, e)] = Linked!Promise!PutTail(c, e, l)
    BY DEF Linked!Promise!PutHead, Linked!Promise!PutTail
  <2> HIDE DEF g, known, b
  <2>7. PICK d : \/ h' = Linked!AddHead(g, e, l) /\ d = [b EXCEPT ![l] = <<e>> \o @]
                 \/ /\ h' = Linked!AddTail(g, e, l) /\ d = [b EXCEPT ![l] = Append(@, e)]
                    /\ ~(loop.on /\ loop.list = l)
    BY <2>2
  <2>8. LinkedHolds(h', d) /\ LinkageHolds(h', d, linkage')
    <3> DEFINE k == h'
    <3>1. PutAtEnd(g, b, e, l, k, d)
      BY <2>7 DEF PutAtEnd
    <3> HIDE DEF k
    <3>2. LinkedHolds(k, d) /\ LinkageHolds(k, d, [known EXCEPT ![e] = "in"])
      BY <2>3, <3>1, EndsKnown
    <3> QED
      BY <2>2, <3>2 DEF k
  <2>9. LoopHolds(d, loop) /\ RestIn(h', loop) = RestIn(g, loop)
    <3> DEFINE k == h'
    <3>1. LinkedHolds(k, d)
      BY <2>8
    <3>2. d = [b EXCEPT ![l] = <<e>> \o @] \/
            (d = [b EXCEPT ![l] = Append(@, e)] /\ ~(loop.on /\ loop.list = l))
      BY <2>7
    <3> HIDE DEF k
    <3>3. LoopHolds(d, loop) /\ RestIn(k, loop) = RestIn(g, loop)
      BY <2>3, <2>4, <2>5, <3>1, <3>2, BodyPutsFirst
    <3> QED
      BY <3>3 DEF k
  <2>10. d \in Linked!Promise!Results(c)
    <3>1. d = Linked!Promise!PutHead(c, e, l) \/ d = Linked!Promise!PutTail(c, e, l)
      BY <2>6, <2>7
    <3> QED
      BY <3>1, ResultsAre
  <2> QED
    BY <1>3, <2>1, <2>5, <2>8, <2>9, <2>10
<1>8. ASSUME NEW src \in Lists, NEW dst \in Lists, Linked!MoveAll(src, dst)
      PROVE  Goal
  <2>1. /\ src # dst /\ ~loop.on
        /\ h' \in {Linked!AddList(h, src, dst), Linked!Splice(h, src, dst),
                   Linked!SpliceTail(h, src, dst)}
        /\ linkage' = linkage /\ ret' = ret /\ loop' = loop
    BY <1>8 DEF Linked!MoveAll
  <2>2. PICK d \in Linked!Promise!Results(c) \cup {c} :
          LinkedHolds(h', d) /\ LinkageHolds(h', d, linkage)
    BY <2>1, MoveAllKeeps
  <2>3. LoopHolds(d, loop') /\ RestIn(h', loop') = RestIn(h, loop)
    BY <1>14, <2>1
  <2> QED
    BY <1>3, <2>1, <2>2, <2>3
<1>9. ASSUME NEW l \in Lists, Linked!Pop(l) PROVE Goal
  <2>1. /\ ~loop.on /\ loop' = loop
        /\ h' = Linked!PopHead(h, l) /\ ret' = Linked!Popped(h, l)
        /\ linkage' = [e \in Entries |-> IF e = ret' THEN "alone" ELSE linkage[e]]
    BY <1>9 DEF Linked!Pop
  <2>2. RestIn(h', loop') = RestIn(h, loop)
    BY <1>14, <2>1
  <2>3. CASE h.next[l] = l
    <3>1. h' = h /\ ret' = NULL
      BY <2>1, <2>3 DEF Linked!PopHead, Linked!Popped, Linked!Empty
    <3>2. linkage' = linkage
      BY <1>2, <2>1, <3>1
    <3>3. To(c)
      BY <2>1, <3>1, <3>2
    <3>4. c[l] = <<>>
      BY <1>2, <2>3, EmptyIs
    <3>5. Turn(c)
      BY <2>2, <3>1, <3>4 DEF SequenceTurn
    <3> QED
      BY <3>3, <3>5
  <2>4. CASE h.next[l] # l
    <3> DEFINE e == h.next[l]
               g == Linked!Unlink(h, e)
               known == [linkage EXCEPT ![e] = "raw"]
               d == Linked!Promise!TakeOff(c, e)
    <3>1. h' = Linked!InitEntry(g, e) /\ ret' = e
      BY <2>1, <2>4 DEF Linked!PopHead, Linked!Popped, Linked!Empty, Linked!Del
    <3>2. 1 \in 1 .. Len(c[l]) /\ e = c[l][1]
      BY <1>2, <2>4, EmptyIs
    <3>3. e \in Entries /\ ~Off(c, Lists, e)
      BY <1>2, <3>2 DEF Off
    <3>4. linkage[e] = "in"
      BY <3>3 DEF LinkageHolds
    <3> HIDE DEF e
    <3>5. linkage' = [known EXCEPT ![e] = "alone"]
      BY <1>2, <2>1, <3>1, <3>3
    <3>6. LinkedHolds(g, d) /\ LinkageHolds(g, d, known) /\ Off(d, Lists, e)
      BY <3>3, <3>4, UnlinkKnown
    <3>7. c[l] # <<>> /\ d = [c EXCEPT ![l] = Tail(@)] /\ e = Head(c[l])
      <4>1. c[l] \in Seq(Entries) /\ c[l] # <<>> /\ Once(c, Lists)
        BY <1>2, <3>2 DEF Kept, Rings, Once
      <4>2. d = [c EXCEPT ![l] = Without(@, 1)]
        <5>1. \A i \in 1 .. Len(c[l]) : c[l][i] = e =>
                Linked!Promise!TakeOff(c, e) = [c EXCEPT ![l] = Without(@, i)]
          BY <1>2, <4>1, TakeOffIs
        <5> QED
          BY <3>2, <5>1
      <4>3. Tail(c[l]) = Without(c[l], 1)
        <5> PICK x \in Entries : TRUE
          BY <3>3
        <5> QED
          BY <4>1, SequencesAre
      <4>4. Head(c[l]) = c[l][1]
        BY <4>1
      <4> HIDE DEF d
      <4> QED
        BY <3>2, <4>1, <4>2, <4>3, <4>4
    <3> HIDE DEF g, known, d
    <3>8. LinkedHolds(h', d) /\ LinkageHolds(h', d, linkage')
      BY <3>1, <3>3, <3>5, <3>6, InitKnown
    <3>9. LoopHolds(d, loop')
      BY <1>14, <2>1
    <3>10. To(d)
      BY <3>1, <3>3, <3>8, <3>9
    <3>11. Turn(d)
      BY <2>2, <3>1, <3>7 DEF SequenceTurn
    <3> QED
      BY <3>10, <3>11
  <2> QED
    BY <2>3, <2>4
<1>10. ASSUME NEW l \in Lists, NEW safe \in BOOLEAN, Linked!LoopBegins(l, safe)
       PROVE  Goal
  <2>1. /\ h.next[l] # l /\ ~loop.on
        /\ loop' = [on |-> TRUE, list |-> l, safe |-> safe, entry |-> h.next[l],
                    next_entry |-> h.next[h.next[l]]]
        /\ h' = h /\ linkage' = linkage /\ ret' = ret
    BY <1>10 DEF Linked!LoopBegins
  <2>2. 1 \in 1 .. Len(c[l]) /\ h.next[l] = c[l][1]
    BY <1>2, <2>1, EmptyIs
  <2>3. LoopHolds(c, loop') /\ RestIn(h, loop') = Behind(c[l], 1)
    <3> DEFINE lp == loop'
    <3>1. lp = [on |-> TRUE, list |-> l, safe |-> safe, entry |-> c[l][1],
                next_entry |-> h.next[c[l][1]]]
      BY <2>1, <2>2
    <3> HIDE DEF lp
    <3>2. LoopHolds(c, lp) /\ RestIn(h, lp) = Behind(c[l], 1)
      BY <2>2, <3>1, GoesOn
    <3> QED
      BY <3>2 DEF lp
  <2>4. c[l] # <<>> /\ Tail(c[l]) = Behind(c[l], 1)
    <3>1. c[l] # <<>> /\ c[l] \in Seq(Entries) /\ 0 \in 0 .. Len(c[l])
      BY <1>2, <2>2
    <3> QED
      BY <3>1, BehindIs
  <2>5. RestIn(h, loop) = <<>>
    BY <2>1 DEF RestIn
  <2>6. To(c)
    BY <2>1, <2>3
  <2>7. Turn(c)
    BY <2>1, <2>3, <2>4, <2>5 DEF SequenceTurn
  <2> QED
    BY <2>6, <2>7
<1>11. CASE Linked!LoopGoesOn
  <2>1. /\ loop.on /\ h' = h /\ linkage' = linkage /\ ret' = ret
        /\ loop' = IF Linked!Following = loop.list THEN Linked!NoLoop
                   ELSE [loop EXCEPT !.entry = Linked!Following,
                                     !.next_entry = h.next[Linked!Following]]
    BY <1>11 DEF Linked!LoopGoesOn
  <2> DEFINE l == loop.list
             s == c[loop.list]
  <2>2. /\ loop \in [on : {TRUE}, list : Lists, safe : BOOLEAN, entry : Entries,
                     next_entry : Linked!Cells]
        /\ l \in Lists /\ loop.safe \in BOOLEAN
    <3>1. loop \in [on : {TRUE}, list : Lists, safe : BOOLEAN, entry : Entries,
                    next_entry : Linked!Cells]
      BY <2>1, LoopIs
    <3> QED
      BY <3>1
  <2>3. PICK j : Placed(s, l, loop.entry, loop.next_entry, loop.safe, j)
    BY <2>1 DEF LoopHolds
  <2>4. RestIn(h, loop) = Behind(s, j) /\ Linked!Following = At(l, s, j + 1)
    BY <2>1, <2>3, RestIs DEF Linked!Following
  <2>5. /\ s \in Seq(Entries) /\ Len(s) \in Nat /\ l \notin Entries
        /\ j \in 0 .. Len(s)
    BY <2>2, <2>3, LinkedRings DEF Placed
  <2>6. CASE j = Len(s)
    <3>1. Linked!Following = l
      BY <2>4, <2>5, <2>6 DEF At
    <3>2. loop' = Linked!NoLoop
      BY <2>1, <3>1
    <3>3. LoopHolds(c, loop') /\ RestIn(h', loop') = <<>>
      BY <3>2 DEF LoopHolds, RestIn, Linked!NoLoop
    <3>4. Behind(s, j) = <<>>
      BY <2>5, <2>6, BehindIs
    <3>5. To(c)
      BY <2>1, <3>3
    <3>6. Turn(c)
      BY <2>1, <2>4, <3>3, <3>4 DEF SequenceTurn
    <3> QED
      BY <3>5, <3>6
  <2>7. CASE j # Len(s)
    <3>1. j + 1 \in 1 .. Len(s) /\ j < Len(s)
      BY <2>5, <2>7
    <3>2. Linked!Following = s[j + 1] /\ s[j + 1] \in Entries
      BY <2>4, <2>5, <3>1 DEF At
    <3>3. Linked!Following # l
      BY <2>5, <3>2
    <3>4. loop' = [on |-> TRUE, list |-> l, safe |-> loop.safe,
                   entry |-> s[j + 1], next_entry |-> h.next[s[j + 1]]]
      BY <2>1, <2>2, <3>2, <3>3
    <3>5. LoopHolds(c, loop') /\ RestIn(h, loop') = Behind(s, j + 1)
      <4> DEFINE lp == loop'
                 i == j + 1
                 sf == loop.safe
      <4>1. lp = [on |-> TRUE, list |-> l, safe |-> sf, entry |-> c[l][i],
                  next_entry |-> h.next[c[l][i]]]
        BY <3>4
      <4>2. i \in 1 .. Len(c[l]) /\ sf \in BOOLEAN /\ l \in Lists
        BY <2>2, <3>1
      <4>3. s = c[l]
        OBVIOUS
      <4> HIDE DEF lp, i, sf, l, s
      <4>4. LoopHolds(c, lp) /\ RestIn(h, lp) = Behind(c[l], i)
        BY <4>1, <4>2, GoesOn
      <4> QED
        BY <4>3, <4>4 DEF lp, i
    <3>6. Behind(s, j) # <<>> /\ Tail(Behind(s, j)) = Behind(s, j + 1)
      <4>1. s \in Seq(Entries) /\ j \in 0 .. Len(s) /\ j # Len(s) /\ j < Len(s)
        BY <2>5, <2>7, <3>1
      <4> HIDE DEF s
      <4> QED
        BY <4>1, BehindIs
    <3>7. To(c)
      BY <2>1, <3>5
    <3>8. Turn(c)
      BY <2>1, <2>4, <3>5, <3>6 DEF SequenceTurn
    <3> QED
      BY <3>7, <3>8
  <2> QED
    BY <2>6, <2>7
<1>12. CASE UNCHANGED Linked!list_vars
  <2>1. h' = h /\ linkage' = linkage /\ ret' = ret /\ loop' = loop
    BY <1>12 DEF Linked!list_vars
  <2>2. To(c) /\ Turn(c)
    BY <2>1 DEF SequenceTurn
  <2> QED
    BY <2>2
<1> QED
  BY <1>4, <1>5, <1>6, <1>7, <1>8, <1>9, <1>10, <1>11, <1>12 DEF Linked!Next

\* The invariant is kept.
LEMMA LinkedStep == LinkedInv /\ [Linked!Next]_(Linked!list_vars) => LinkedInv'
<1> SUFFICES ASSUME LinkedInv, [Linked!Next]_(Linked!list_vars) PROVE LinkedInv'
  OBVIOUS
<1>1. PICK c :
        LinkedHolds(h, c) /\ LinkageHolds(h, c, linkage) /\ LoopHolds(c, loop)
  BY DEF LinkedInv
<1>2. PICK d : /\ ret' \in Entries \cup {NULL}
               /\ LinkedHolds(h', d) /\ LinkageHolds(h', d, linkage')
               /\ LoopHolds(d, loop')
  BY <1>1, LinkedTurns DEF LinkedInv
<1> QED
  BY <1>2 DEF LinkedInv

\* From the sequences the invariant says there are follows that a walk forth
\* and one back meet the same entries.
LEMMA LinkedInvAgrees == LinkedInv => Linked!TypeOK /\ Linked!LinksAgree
<1> SUFFICES ASSUME LinkedInv PROVE Linked!TypeOK /\ Linked!LinksAgree
  OBVIOUS
<1>1. PICK c :
        LinkedHolds(h, c) /\ LinkageHolds(h, c, linkage) /\ LoopHolds(c, loop)
  BY DEF LinkedInv
<1>2. /\ Kept(h, c, Linked!Cells, Linked!Cells \cup {NULL}, Lists, Entries)
      /\ c \in [Lists -> Seq(Entries)] /\ Lists \cap Entries = {}
      /\ \A l, m \in Lists : \A i \in 1 .. Len(c[l]), j \in 1 .. Len(c[m]) :
           c[l][i] = c[m][j] => l = m /\ i = j
      /\ NULL \notin Entries
  BY <1>1, LibraryAssumption DEF LinkedHolds, Kept, Rings
<1>3. ASSUME NEW l \in Lists
      PROVE  /\ Linked!Content(l) = c[l]
             /\ Linked!Backwards(h, l, Linked!Bound) = Ops!Reverse(c[l])
  <2>1. Len(c[l]) <= Linked!Bound /\ Linked!Bound \in Nat
    BY <1>2, ListIsShort
  <2> DEFINE b == Linked!Bound
  <2> HIDE DEF b
  <2>2. /\ Ops!OnList(h, l, b) = c[l]
        /\ Ops!Backwards(h, l, b) = Ops!Reverse(c[l])
    BY <1>2, <2>1, WalksMeet DEF b
  <2> QED
    BY <2>2, LinkedFrom DEF b, Linked!Content
<1>4. ASSUME NEW l \in Lists, NEW x \in Entries
      PROVE  x \in Linked!On(l) <=> OnList(c, l, x)
  <2>1. Linked!On(l) = {c[l][i] : i \in 1 .. Len(c[l])}
    BY <1>2, <1>3 DEF Linked!On, Linked!ToSet
  <2> QED
    BY <2>1 DEF OnList
<1>5. Linked!TypeOK
  <2>1. h \in [next : [Linked!Cells -> Linked!Cells \cup {NULL}],
               prev : [Linked!Cells -> Linked!Cells \cup {NULL}]]
    BY <1>2 DEF Kept, Memories
  <2>2. /\ ret \in Entries \cup {NULL}
        /\ linkage \in [Entries -> {"raw", "alone", "in"}]
    BY <1>1 DEF LinkedInv, LinkageHolds
  <2>3. loop.on => /\ loop.list \in Lists /\ loop.safe \in BOOLEAN
                   /\ loop.entry \in Entries /\ loop.next_entry \in Linked!Cells
    <3> SUFFICES ASSUME loop.on
                 PROVE  /\ loop.list \in Lists /\ loop.safe \in BOOLEAN
                        /\ loop.entry \in Entries /\ loop.next_entry \in Linked!Cells
      OBVIOUS
    <3>1. LoopHolds(c, loop)
      BY <1>1
    <3>2. loop \in [on : {TRUE}, list : Lists, safe : BOOLEAN, entry : Entries,
                    next_entry : Linked!Cells]
      BY <3>1, LoopIs
    <3> QED
      BY <3>2
  <2> QED
    BY <2>1, <2>2, <2>3 DEF Linked!TypeOK
<1>6. ASSUME NEW l \in Lists
      PROVE  /\ Linked!Backwards(h, l, Linked!Bound) = Linked!Reverse(Linked!Content(l))
             /\ Linked!Empty(h, l) <=> Linked!On(l) = {}
             /\ \A e \in Entries :
                  /\ Linked!IsHead(h, e, l)
                       <=> Linked!On(l) # {} /\ Head(Linked!Content(l)) = e
                  /\ Linked!IsTail(h, e, l)
                       <=> Linked!On(l) # {} /\ Linked!Last(Linked!Content(l)) = e
  <2>1. /\ c[l] \in Seq(Entries) /\ Len(c[l]) \in Nat /\ l \notin Entries
        /\ h.next[l] = At(l, c[l], 1) /\ h.prev[l] = At(l, c[l], Len(c[l]))
    BY <1>2, RingCells
  <2>2. /\ Linked!Content(l) = c[l]
        /\ Linked!On(l) = {c[l][i] : i \in 1 .. Len(c[l])}
    BY <1>2, <1>3 DEF Linked!On, Linked!ToSet
  <2>3. Linked!Backwards(h, l, Linked!Bound) = Linked!Reverse(Linked!Content(l))
    BY <1>3 DEF Linked!Reverse, Ops!Reverse
  <2>4. CASE Len(c[l]) = 0
    <3>1. h.next[l] = l /\ h.prev[l] = l /\ Linked!On(l) = {}
      BY <2>1, <2>2, <2>4 DEF At
    <3> QED
      BY <2>1, <2>3, <3>1 DEF Linked!Empty, Linked!IsHead, Linked!IsTail
  <2>5. CASE Len(c[l]) # 0
    <3>1. 1 \in 1 .. Len(c[l]) /\ Len(c[l]) \in 1 .. Len(c[l])
      BY <2>1, <2>5
    <3>2. /\ h.next[l] = c[l][1] /\ h.prev[l] = c[l][Len(c[l])]
          /\ Linked!On(l) # {}
      BY <2>1, <2>2, <3>1 DEF At
    <3>3. c[l][1] \in Entries /\ Head(c[l]) = c[l][1]
          /\ Linked!Last(c[l]) = c[l][Len(c[l])]
      BY <2>1, <3>1 DEF Linked!Last
    <3> QED
      BY <2>1, <2>2, <2>3, <3>2, <3>3
         DEF Linked!Empty, Linked!IsHead, Linked!IsTail
  <2> QED
    BY <2>4, <2>5
<1>7. ASSUME NEW e \in Entries
      PROVE  /\ linkage[e] = "in" <=> \E l \in Lists : e \in Linked!On(l)
             /\ linkage[e] = "alone" => Linked!Empty(h, e)
  <2>1. ~Off(c, Lists, e) <=> \E l \in Lists : e \in Linked!On(l)
    BY <1>4, OffIs
  <2> QED
    BY <1>1, <2>1 DEF LinkageHolds, Linked!Empty
<1>8. Linked!LinksAgree
  BY <1>6, <1>7 DEF Linked!LinksAgree
<1> QED
  BY <1>5, <1>8

-----------------------------------------------------------------------------
(* AtomicList.                                                             *)

\* A lane for the shared list, and one for what each thread has yet to meet.
Lanes == Threads \cup {NoThread}

\* Where the chain of each lane begins.
Firsts(hd, p, tk, n) ==
  [l \in Lanes |-> IF l = NoThread THEN hd
                   ELSE IF p[l] = "taken" THEN tk[l] ELSE n[l]]

\* The links f lead along s and end.
LeadsAlong(f, s) == \A i \in 1 .. Len(s) : f[s[i]] = At(NULL, s, i + 1)

\* The lanes begin at first and are the chains c, no entry at two places.
ChainsHold(f, first, c) ==
  /\ c \in [Lanes -> Seq(Entries)]
  /\ Once(c, Lanes)
  /\ \A l \in Lanes : first[l] = At(NULL, c[l], 1)
  /\ \A l \in Lanes : LeadsAlong(f, c[l])

Adds(p) == {t \in Threads : p[t] \in {"link", "swap"}}

\* An entry that a thread may add, or is adding, is on no chain and is no other
\* thread's.
HandsHold(c, p, en, mn) ==
  /\ \A t, u \in Threads : \A x \in mn[t] : x \in mn[u] => t = u
  /\ \A t \in Threads : \A x \in mn[t] : Off(c, Lanes, x)
  /\ \A t \in Adds(p) : en[t] \in Entries /\ Off(c, Lanes, en[t])
  /\ \A t \in Adds(p) : \A u \in Threads : en[t] \notin mn[u]
  /\ \A t, u \in Adds(p) : en[t] = en[u] => t = u

\* The entry a thread is about to make the head leads to what it takes the head
\* for, and a thread outside of a loop goes on nowhere.
AtomicShape ==
  /\ Atomic!TypeOK
  /\ \A t \in Threads : pc[t] \in {"link", "swap"} => entry[t] \in Entries
  /\ \A t \in Threads : pc[t] = "swap" => next[entry[t]] = cur[t]
  /\ \A t \in Threads : pos[t] = NULL => loop_n[t] = NULL

\* The inductive invariant of the lock-free list.
AtomicInv ==
  /\ AtomicShape
  /\ \E c : /\ ChainsHold(next, Firsts(head, pc, taken, loop_n), c)
            /\ HandsHold(c, pc, entry, mine)

\* What becomes of the lanes: one goes on behind its first, the shared list has
\* a new first, or it is taken.
Shortened(c, t) == [c EXCEPT ![t] = Tail(@)]
Grown(c, e)     == [c EXCEPT ![NoThread] = <<e>> \o @]
AllTaken(c, t)  == [c EXCEPT ![t] = c[NoThread], ![NoThread] = <<>>]

\* A step of TakeAllStack on the chains c and the hands mn, or none.
StackTurn(c, mn, d, nm) ==
  \/ d = c /\ nm = mn
  \/ d = c /\ \E t \in Threads : \E e \in mn[t] : nm = [mn EXCEPT ![t] = @ \ {e}]
  \/ /\ nm = mn
     /\ \E e \in Entries : /\ Off(c, Lanes, e) /\ \A t \in Threads : e \notin mn[t]
                           /\ d = Grown(c, e)
  \/ /\ nm = mn
     /\ \E t \in Threads : c[t] = <<>> /\ d = AllTaken(c, t)
  \/ \E t \in Threads : /\ c[t] # <<>> /\ d = Shortened(c, t)
                        /\ nm = [mn EXCEPT ![t] = @ \cup {Head(c[t])}]

\* A list that holds nothing, with every thread outside of it and every entry
\* in the hands of one thread at most.
LEMMA AtomicInit ==
  Atomic!NothingAdded /\ mine \in [Threads -> SUBSET Entries]
  /\ (\A t, u \in Threads : \A x \in mine[t] : x \in mine[u] => t = u)
    => AtomicInv
<1> SUFFICES ASSUME Atomic!NothingAdded, mine \in [Threads -> SUBSET Entries],
                    \A t, u \in Threads : \A x \in mine[t] : x \in mine[u] => t = u
             PROVE  AtomicInv
  OBVIOUS
<1> DEFINE c == [l \in Lanes |-> <<>>]
           first == Firsts(head, pc, taken, loop_n)
<1>1. AtomicShape
  BY DEF Atomic!NothingAdded, AtomicShape, Atomic!TypeOK, Atomic!Link
<1>2. \A l \in Lanes : first[l] = NULL
  BY DEF Atomic!NothingAdded, Firsts, Lanes
<1>3. /\ c \in [Lanes -> Seq(Entries)]
      /\ \A l \in Lanes : c[l] = <<>> /\ Len(c[l]) = 0
  OBVIOUS
<1>4. \A t \in Threads : t \notin Adds(pc)
  BY DEF Atomic!NothingAdded, Adds
<1> HIDE DEF c, first
<1>5. ChainsHold(next, first, c)
  BY <1>2, <1>3 DEF ChainsHold, Once, LeadsAlong, At
<1>6. HandsHold(c, pc, entry, mine)
  BY <1>3, <1>4 DEF HandsHold, Off, Adds
<1> QED
  BY <1>1, <1>5, <1>6 DEF AtomicInv, first

\* The chain of a lane is empty when it begins nowhere, and is walked from its
\* first entry otherwise.
LEMMA LaneIs ==
  ASSUME NEW f, NEW first, NEW c, ChainsHold(f, first, c), NEW l \in Lanes
  PROVE  /\ c[l] \in Seq(Entries) /\ Len(c[l]) \in Nat
         /\ first[l] = NULL <=> c[l] = <<>>
         /\ c[l] # <<>> => /\ 1 \in 1 .. Len(c[l]) /\ first[l] = c[l][1]
                           /\ c[l][1] \in Entries /\ Head(c[l]) = c[l][1]
                           /\ f[c[l][1]] = At(NULL, c[l], 2)
<1> DEFINE s == c[l]
<1>1. s \in Seq(Entries) /\ Len(s) \in Nat /\ first[l] = At(NULL, s, 1)
      /\ NULL \notin Entries /\ \A i \in 1 .. Len(s) : f[s[i]] = At(NULL, s, i + 1)
  BY LibraryAssumption DEF ChainsHold, LeadsAlong
<1> HIDE DEF s
<1>2. CASE s = <<>>
  BY <1>1, <1>2 DEF At, s
<1>3. CASE s # <<>>
  <2>1. 1 \in 1 .. Len(s) /\ s[1] \in Entries /\ Head(s) = s[1]
    BY <1>1, <1>3
  <2>2. first[l] = s[1]
    BY <1>1, <2>1 DEF At
  <2>3. f[s[1]] = At(NULL, s, 2)
    <3>1. f[s[1]] = At(NULL, s, 1 + 1)
      BY <1>1, <2>1
    <3>2. 1 + 1 = 2
      OBVIOUS
    <3> QED
      BY <3>1, <3>2
  <2> QED
    BY <1>1, <1>3, <2>1, <2>2, <2>3 DEF s
<1> QED
  BY <1>2, <1>3

\* The walk that Chain is meets the chain of the lane.
LEMMA LaneIsWalked ==
  ASSUME NEW f, NEW first, NEW c, ChainsHold(f, first, c), NEW l \in Lanes
  PROVE  Atomic!Links!From(f, first[l], NULL, Cardinality(Entries) + 1) = c[l]
<1> DEFINE s == c[l]
           b == Cardinality(Entries) + 1
           e == first[l]
<1>1. /\ s \in Seq(Entries) /\ Len(s) \in Nat /\ NULL \notin Entries
      /\ e = At(NULL, s, 1) /\ \A i \in 1 .. Len(s) : f[s[i]] = At(NULL, s, i + 1)
      /\ \A i, j \in 1 .. Len(s) : s[i] = s[j] => i = j
  BY LibraryAssumption DEF ChainsHold, Once, LeadsAlong
<1> HIDE DEF s
<1>2. Len(s) <= b /\ b \in Nat
  <2>1. Len(s) <= Cardinality(Entries) /\ Cardinality(Entries) \in Nat
    BY <1>1, DistinctIsShort, LibraryAssumption
  <2> QED
    BY <1>1, <2>1
<1> HIDE DEF b, e
<1> DEFINE e1 == At(NULL, s, 1)
<1>3. e1 = At(NULL, s, 1) /\ e = e1
  BY <1>1
<1> HIDE DEF e1
<1>4. Ops!From(f, e1, NULL, b) = s
  BY <1>1, <1>2, <1>3, WalkMeets
<1>5. Atomic!Links!From(f, e, NULL, b) = Ops!From(f, e, NULL, b)
  BY DEF Atomic!Links!From, Ops!From, Atomic!Links!Last, Ops!Last
<1> QED
  BY <1>3, <1>4, <1>5 DEF s, b, e

\* What a loop comes to is first of its lane, which goes on behind it.
LEMMA LaneShortens ==
  ASSUME NEW f, NEW first, NEW c, ChainsHold(f, first, c), NEW t \in Lanes,
         c[t] # <<>>,
         NEW second, second[t] = f[first[t]],
         \A m \in Lanes \ {t} : second[m] = first[m]
  PROVE  /\ ChainsHold(f, second, Shortened(c, t))
         /\ \A x : Off(Shortened(c, t), Lanes, x)
                     <=> Off(c, Lanes, x) \/ x = first[t]
<1> DEFINE s == c[t]
           r == Without(s, 1)
           d == [c EXCEPT ![t] = r]
<1>1. /\ c \in [Lanes -> Seq(Entries)] /\ Once(c, Lanes)
      /\ s \in Seq(Entries) /\ Len(s) \in Nat /\ 1 \in 1 .. Len(s)
      /\ first[t] = s[1] /\ f[s[1]] = At(NULL, s, 2)
      /\ \A i \in 1 .. Len(s) : f[s[i]] = At(NULL, s, i + 1)
      /\ \A i, j \in 1 .. Len(s) : s[i] = s[j] => i = j
  <2>1. /\ c \in [Lanes -> Seq(Entries)] /\ Once(c, Lanes)
        /\ \A i \in 1 .. Len(s) : f[s[i]] = At(NULL, s, i + 1)
    BY DEF ChainsHold, LeadsAlong
  <2>2. /\ s \in Seq(Entries) /\ Len(s) \in Nat /\ 1 \in 1 .. Len(s)
        /\ first[t] = s[1] /\ f[s[1]] = At(NULL, s, 2)
    BY LaneIs
  <2>3. \A i, j \in 1 .. Len(s) : s[i] = s[j] => i = j
    BY <2>1 DEF Once
  <2> QED
    BY <2>1, <2>2, <2>3
<1>2. Tail(s) = r
  <2> HIDE DEF s, r
  <2>1. s # <<>> /\ s \in Seq(Entries) /\ s[1] \in Entries
    BY <1>1 DEF s
  <2> QED
    BY <2>1, SequencesAre DEF r
<1>3. /\ r \in Seq(Entries) /\ Len(r) = Len(s) - 1
      /\ \A k \in 1 .. Len(s) - 1 : r[k] = s[k + 1]
  <2>1. r \in Seq(Entries) /\ Len(r) = Len(s) - 1
    BY <1>1, Removed
  <2>2. \A k \in 1 .. Len(s) - 1 : r[k] = s[k + 1]
    BY <1>1 DEF Without
  <2> QED
    BY <2>1, <2>2
<1>4. Once(d, Lanes)
  BY <1>1, CutOnce
<1>5. /\ d \in [Lanes -> Seq(Entries)] /\ d[t] = r
      /\ \A m \in Lanes \ {t} : d[m] = c[m]
  BY <1>1, <1>3
<1>6. At(NULL, r, 1) = At(NULL, s, 2)
  <2> HIDE DEF s, r, d
  <2>1. CASE Len(s) = 1
    BY <1>1, <1>3, <2>1 DEF At
  <2>2. CASE Len(s) # 1
    <3>1. Len(s) \in Nat /\ 1 \in 1 .. Len(s)
      BY <1>1
    <3>2. \A n \in Nat : 1 \in 1 .. n /\ n # 1
                           => 1 \in 1 .. n - 1 /\ 2 \in 1 .. n /\ 1 + 1 = 2
      OBVIOUS
    <3>3. 1 \in 1 .. Len(s) - 1 /\ 2 \in 1 .. Len(s) /\ 1 + 1 = 2
      BY <2>2, <3>1, <3>2
    <3> QED
      BY <1>3, <3>3 DEF At
  <2> QED
    BY <2>1, <2>2
<1>7. ASSUME NEW i \in 1 .. Len(r) PROVE f[r[i]] = At(NULL, r, i + 1)
  <2>1. /\ i \in 1 .. Len(s) - 1 /\ i + 1 \in 1 .. Len(s)
    BY <1>1, <1>3
  <2>2. f[r[i]] = At(NULL, s, (i + 1) + 1)
    BY <1>1, <1>3, <2>1
  <2>3. At(NULL, s, (i + 1) + 1) = At(NULL, r, i + 1)
    <3>1. CASE i = Len(r)
      BY <1>1, <1>3, <3>1 DEF At
    <3>2. CASE i # Len(r)
      <4>1. i + 1 \in 1 .. Len(s) - 1 /\ (i + 1) + 1 \in 1 .. Len(s)
            /\ i + 1 \in 1 .. Len(r)
        BY <1>1, <1>3, <2>1, <3>2
      <4> QED
        BY <1>3, <4>1 DEF At
    <3> QED
      BY <3>1, <3>2
  <2> QED
    BY <2>2, <2>3
<1>8. /\ second[t] = At(NULL, s, 2)
      /\ \A m \in Lanes \ {t} : second[m] = first[m]
  BY <1>1
<1>9. \A x : Off(d, Lanes, x) <=> Off(c, Lanes, x) \/ x = first[t]
  <2> HIDE DEF s, r, d
  <2>1. ASSUME NEW x, Off(c, Lanes, x) PROVE Off(d, Lanes, x)
    <3>1. \A m \in Lanes \ {t} : \A i \in 1 .. Len(d[m]) : d[m][i] # x
      BY <1>5, <2>1 DEF Off
    <3>2. \A i \in 1 .. Len(r) : r[i] # x
      <4> SUFFICES ASSUME NEW i \in 1 .. Len(r) PROVE r[i] # x
        OBVIOUS
      <4>1. i + 1 \in 1 .. Len(s) /\ r[i] = s[i + 1]
        BY <1>1, <1>3
      <4> QED
        BY <2>1, <4>1 DEF Off, s
    <3> QED
      BY <1>5, <3>1, <3>2 DEF Off
  <2>2. Off(d, Lanes, first[t])
    <3>1. \A m \in Lanes \ {t} : \A i \in 1 .. Len(d[m]) : d[m][i] # s[1]
      BY <1>1, <1>5 DEF Once, s
    <3>2. \A i \in 1 .. Len(r) : r[i] # s[1]
      <4> SUFFICES ASSUME NEW i \in 1 .. Len(r) PROVE r[i] # s[1]
        OBVIOUS
      <4>1. i + 1 \in 1 .. Len(s) /\ r[i] = s[i + 1] /\ i + 1 # 1
        BY <1>1, <1>3
      <4> QED
        BY <1>1, <4>1
    <3>3. \A m \in Lanes : \A i \in 1 .. Len(d[m]) : d[m][i] # s[1]
      <4> SUFFICES ASSUME NEW m \in Lanes
                   PROVE  \A i \in 1 .. Len(d[m]) : d[m][i] # s[1]
        OBVIOUS
      <4>1. CASE m = t
        BY <1>5, <3>2, <4>1
      <4>2. CASE m # t
        BY <3>1, <4>2
      <4> QED
        BY <4>1, <4>2
    <3>4. Off(d, Lanes, s[1])
      BY <3>3 DEF Off
    <3> QED
      BY <1>1, <3>4
  <2>3. ASSUME NEW x, Off(d, Lanes, x), x # first[t] PROVE Off(c, Lanes, x)
    <3>1. \A m \in Lanes \ {t} : \A i \in 1 .. Len(c[m]) : c[m][i] # x
      BY <1>5, <2>3 DEF Off
    <3>2. \A i \in 1 .. Len(s) : s[i] # x
      <4> SUFFICES ASSUME NEW i \in 1 .. Len(s) PROVE s[i] # x
        OBVIOUS
      <4>1. CASE i = 1
        BY <1>1, <2>3, <4>1
      <4>2. CASE i # 1
        <5>1. i - 1 \in 1 .. Len(r) /\ (i - 1) + 1 = i
          BY <1>1, <1>3, <4>2
        <5>2. r[i - 1] = s[i]
          BY <1>3, <5>1
        <5> QED
          BY <1>5, <2>3, <5>1, <5>2 DEF Off
      <4> QED
        BY <4>1, <4>2
    <3> QED
      BY <3>1, <3>2 DEF Off, s
  <2> QED
    BY <2>1, <2>2, <2>3
<1> HIDE DEF s, r, d
<1>10. \A m \in Lanes : second[m] = At(NULL, d[m], 1)
  BY <1>5, <1>6, <1>8 DEF ChainsHold
<1>11. \A m \in Lanes : LeadsAlong(f, d[m])
  <2>1. LeadsAlong(f, r)
    BY <1>7 DEF LeadsAlong
  <2>2. \A m \in Lanes : LeadsAlong(f, c[m])
    BY DEF ChainsHold
  <2> QED
    BY <1>5, <2>1, <2>2
<1>12. ChainsHold(f, second, d)
  BY <1>4, <1>5, <1>10, <1>11 DEF ChainsHold
<1>13. Shortened(c, t) = d
  BY <1>2 DEF d, s, Shortened
<1> QED
  BY <1>9, <1>12, <1>13

\* An entry that is on no chain, and leads to the first of the shared list, is
\* put before it.
LEMMA LaneGrows ==
  ASSUME NEW f, NEW first, NEW c, ChainsHold(f, first, c),
         NEW e \in Entries, Off(c, Lanes, e), f[e] = first[NoThread],
         NEW second, second[NoThread] = e,
         \A m \in Lanes \ {NoThread} : second[m] = first[m]
  PROVE  /\ ChainsHold(f, second, Grown(c, e))
         /\ \A x : Off(Grown(c, e), Lanes, x) <=> Off(c, Lanes, x) /\ x # e
<1> DEFINE l == NoThread
           s == c[l]
           r == InsertAt(s, 0, e)
           d == [c EXCEPT ![l] = r]
<1>1. /\ c \in [Lanes -> Seq(Entries)] /\ Once(c, Lanes) /\ l \in Lanes
      /\ s \in Seq(Entries) /\ Len(s) \in Nat /\ 0 \in 0 .. Len(s)
      /\ \A i \in 1 .. Len(s) : f[s[i]] = At(NULL, s, i + 1)
      /\ first[l] = At(NULL, s, 1)
  BY DEF ChainsHold, LeadsAlong, Lanes
<1>2. <<e>> \o s = r
  <2> HIDE DEF s, r
  <2> QED
    BY <1>1, SequencesAre DEF r
<1>3. /\ r \in Seq(Entries) /\ Len(r) = Len(s) + 1 /\ r[1] = e
      /\ \A k \in 2 .. Len(s) + 1 : r[k] = s[k - 1]
  <2>1. r \in Seq(Entries) /\ Len(r) = Len(s) + 1
    BY <1>1, Inserted
  <2>2. r[1] = e /\ \A k \in 2 .. Len(s) + 1 : r[k] = s[k - 1]
    BY <1>1 DEF InsertAt
  <2> QED
    BY <2>1, <2>2
<1>4. Once(d, Lanes)
  BY <1>1, AddOnce
<1>5. /\ d \in [Lanes -> Seq(Entries)] /\ d[l] = r
      /\ \A m \in Lanes \ {l} : d[m] = c[m]
  BY <1>1, <1>3
<1>6. /\ second[l] = e /\ \A m \in Lanes \ {l} : second[m] = first[m]
  BY <1>1
<1> HIDE DEF s, r, d, l
<1>7. \A k \in 2 .. Len(s) + 2 : At(NULL, r, k) = At(NULL, s, k - 1)
  <2> SUFFICES ASSUME NEW k \in 2 .. Len(s) + 2
               PROVE  At(NULL, r, k) = At(NULL, s, k - 1)
    OBVIOUS
  <2>1. CASE k = Len(s) + 2
    BY <1>1, <1>3, <2>1 DEF At
  <2>2. CASE k # Len(s) + 2
    <3>1. Len(s) \in Nat /\ Len(r) = Len(s) + 1
      BY <1>1, <1>3
    <3>2. k \in 2 .. Len(s) + 1
      BY <2>2, <3>1
    <3>3. k \in 1 .. Len(r) /\ k - 1 \in 1 .. Len(s)
      BY <3>1, <3>2
    <3> QED
      BY <1>3, <3>2, <3>3 DEF At
  <2> QED
    BY <2>1, <2>2
<1>8. ASSUME NEW i \in 1 .. Len(r) PROVE f[r[i]] = At(NULL, r, i + 1)
  <2>1. i + 1 \in 2 .. Len(s) + 2 /\ (i + 1) - 1 = i
    BY <1>1, <1>3
  <2>2. At(NULL, r, i + 1) = At(NULL, s, i)
    BY <1>7, <2>1
  <2>3. CASE i = 1
    BY <1>1, <1>3, <2>2, <2>3 DEF l
  <2>4. CASE i # 1
    <3>1. i \in 2 .. Len(s) + 1 /\ i - 1 \in 1 .. Len(s) /\ (i - 1) + 1 = i
      BY <1>1, <1>3, <2>4
    <3>2. f[s[i - 1]] = At(NULL, s, (i - 1) + 1)
      BY <1>1, <3>1
    <3> QED
      BY <1>3, <2>2, <3>1, <3>2
  <2> QED
    BY <2>3, <2>4
<1>9. second[l] = At(NULL, r, 1)
  <2>1. 1 \in 1 .. Len(r)
    BY <1>1, <1>3
  <2> QED
    BY <1>3, <1>6, <2>1 DEF At
<1>10. \A m \in Lanes : second[m] = At(NULL, d[m], 1)
  BY <1>5, <1>6, <1>9 DEF ChainsHold
<1>11. \A m \in Lanes : LeadsAlong(f, d[m])
  <2>1. LeadsAlong(f, r)
    BY <1>8 DEF LeadsAlong
  <2>2. \A m \in Lanes : LeadsAlong(f, c[m])
    BY DEF ChainsHold
  <2> QED
    BY <1>5, <2>1, <2>2
<1>12. ChainsHold(f, second, d)
  BY <1>4, <1>5, <1>10, <1>11 DEF ChainsHold
<1>13. \A x : Off(d, Lanes, x) <=> Off(c, Lanes, x) /\ x # e
  <2>1. ASSUME NEW x, Off(d, Lanes, x) PROVE x # e
    <3>1. 1 \in 1 .. Len(r)
      BY <1>1, <1>3
    <3> QED
      BY <1>1, <1>3, <1>5, <2>1, <3>1 DEF Off
  <2>2. ASSUME NEW x, Off(d, Lanes, x), NEW i \in 1 .. Len(s) PROVE s[i] # x
    <3>1. i + 1 \in 2 .. Len(s) + 1 /\ (i + 1) - 1 = i /\ i + 1 \in 1 .. Len(r)
      BY <1>1, <1>3
    <3>2. r[i + 1] = s[i]
      BY <1>3, <3>1
    <3>3. r[i + 1] # x
      BY <1>1, <1>5, <2>2, <3>1 DEF Off
    <3> QED
      BY <3>2, <3>3
  <2>3. ASSUME NEW x, Off(d, Lanes, x) PROVE Off(c, Lanes, x)
    <3> SUFFICES ASSUME NEW m \in Lanes PROVE \A i \in 1 .. Len(c[m]) : c[m][i] # x
      BY DEF Off
    <3>1. CASE m = l
      BY <2>2, <2>3, <3>1 DEF s
    <3>2. CASE m # l
      BY <1>5, <2>3, <3>2 DEF Off
    <3> QED
      BY <3>1, <3>2
  <2>4. ASSUME NEW x, Off(c, Lanes, x), x # e PROVE Off(d, Lanes, x)
    <3>1. ASSUME NEW i \in 1 .. Len(r) PROVE r[i] # x
      <4>1. i # 1 => i \in 2 .. Len(s) + 1 /\ i - 1 \in 1 .. Len(s)
        BY <1>1, <1>3
      <4>2. i # 1 => s[i - 1] # x
        BY <1>1, <2>4, <4>1 DEF Off, s
      <4> QED
        BY <1>3, <2>4, <4>1, <4>2
    <3> SUFFICES ASSUME NEW m \in Lanes PROVE \A i \in 1 .. Len(d[m]) : d[m][i] # x
      BY DEF Off
    <3>2. CASE m = l
      BY <1>5, <3>1, <3>2
    <3>3. CASE m # l
      BY <1>5, <2>4, <3>3 DEF Off
    <3> QED
      BY <3>2, <3>3
  <2> QED
    BY <2>1, <2>3, <2>4
<1>14. Grown(c, e) = d
  BY <1>2 DEF d, s, l, Grown
<1> QED
  BY <1>12, <1>13, <1>14

\* The shared list becomes the lane of a thread that had none.
LEMMA LanesMove ==
  ASSUME NEW f, NEW first, NEW c, ChainsHold(f, first, c),
         NEW t \in Threads, c[t] = <<>>,
         NEW second, second[t] = first[NoThread], second[NoThread] = NULL,
         \A m \in Lanes \ {t, NoThread} : second[m] = first[m]
  PROVE  /\ ChainsHold(f, second, AllTaken(c, t))
         /\ \A x : Off(AllTaken(c, t), Lanes, x) <=> Off(c, Lanes, x)
<1> DEFINE l == NoThread
           d == [c EXCEPT ![t] = c[l], ![l] = <<>>]
<1>1. /\ c \in [Lanes -> Seq(Entries)] /\ Once(c, Lanes) /\ l \in Lanes
      /\ t \in Lanes /\ t # l
  BY LibraryAssumption DEF ChainsHold, Lanes
<1>2. /\ d \in [Lanes -> Seq(Entries)] /\ d[t] = c[l] /\ d[l] = <<>>
      /\ \A m \in Lanes \ {t, l} : d[m] = c[m]
  <2>1. <<>> \in Seq(Entries) /\ c[l] \in Seq(Entries)
    BY <1>1
  <2> QED
    BY <1>1, <2>1
<1>3. /\ second[t] = first[l] /\ second[l] = NULL
      /\ \A m \in Lanes \ {t, l} : second[m] = first[m]
  OBVIOUS
<1>4. Len(<<>>) = 0 /\ \A i \in 1 .. 0 : FALSE
  OBVIOUS
<1> HIDE DEF d
<1>5. \A m \in Lanes : second[m] = At(NULL, d[m], 1)
  <2>1. At(NULL, <<>>, 1) = NULL
    BY <1>4 DEF At
  <2> QED
    BY <1>1, <1>2, <1>3, <2>1 DEF ChainsHold
<1>6. \A m \in Lanes : LeadsAlong(f, d[m])
  <2>1. LeadsAlong(f, <<>>)
    BY <1>4 DEF LeadsAlong
  <2> QED
    BY <1>1, <1>2, <2>1 DEF ChainsHold
<1>7. Once(d, Lanes)
  <2> DEFINE Was(m) == IF m = t THEN l ELSE m
  <2>1. \A m \in Lanes : m # l => /\ d[m] = c[Was(m)] /\ Was(m) \in Lanes
    BY <1>1, <1>2
  <2>2. \A m \in Lanes : Len(d[m]) # 0 => m # l
    BY <1>2, <1>4
  <2>3. \A m, n \in Lanes : m # l /\ n # l /\ Was(m) = Was(n) => m = n
    OBVIOUS
  <2> SUFFICES ASSUME NEW m \in Lanes, NEW n \in Lanes, NEW i \in 1 .. Len(d[m]),
                      NEW j \in 1 .. Len(d[n]), d[m][i] = d[n][j]
               PROVE  m = n /\ i = j
    BY DEF Once
  <2>4. m # l /\ n # l
    BY <1>2, <1>4
  <2>5. Was(m) \in Lanes /\ Was(n) \in Lanes /\ d[m] = c[Was(m)] /\ d[n] = c[Was(n)]
    BY <2>1, <2>4
  <2>6. Was(m) = Was(n) /\ i = j
    <3> HIDE DEF Was
    <3> QED
      BY <1>1, <2>5 DEF Once
  <2> QED
    BY <2>3, <2>4, <2>6
<1>8. \A x : Off(d, Lanes, x) <=> Off(c, Lanes, x)
  <2>1. \A m \in Lanes : m # t /\ m # l => d[m] = c[m]
    BY <1>2
  <2>2. ASSUME NEW x, Off(c, Lanes, x) PROVE Off(d, Lanes, x)
    BY <1>1, <1>2, <1>4, <2>1, <2>2 DEF Off
  <2>3. ASSUME NEW x, Off(d, Lanes, x) PROVE Off(c, Lanes, x)
    BY <1>1, <1>2, <1>4, <2>1, <2>3 DEF Off
  <2> QED
    BY <2>2, <2>3
<1>9. ChainsHold(f, second, d)
  BY <1>2, <1>5, <1>6, <1>7 DEF ChainsHold
<1> QED
  BY <1>8, <1>9 DEF d, AllTaken

\* An entry on no chain leads anywhere.
LEMMA LanesStay ==
  ASSUME NEW f, NEW first, NEW c, ChainsHold(f, first, c),
         f \in [Entries -> Entries \cup {NULL}],
         NEW e, Off(c, Lanes, e), NEW x
  PROVE  ChainsHold([f EXCEPT ![e] = x], first, c)
<1> DEFINE g == [f EXCEPT ![e] = x]
<1>1. \A y \in Entries : y # e => g[y] = f[y]
  OBVIOUS
<1> HIDE DEF g
<1>2. \A l \in Lanes : \A i \in 1 .. Len(c[l]) : c[l][i] \in Entries /\ c[l][i] # e
  BY DEF ChainsHold, Off
<1>3. \A l \in Lanes : LeadsAlong(g, c[l])
  BY <1>1, <1>2 DEF ChainsHold, LeadsAlong
<1>4. ChainsHold(g, first, c)
  BY <1>3 DEF ChainsHold
<1> QED
  BY <1>4 DEF g

\* What each step does to the chains and the hands, and that it keeps the
\* invariant.
AtomicTurned(c, d) ==
  /\ ChainsHold(next', Firsts(head', pc', taken', loop_n'), d)
  /\ HandsHold(d, pc', entry', mine')
  /\ StackTurn(c, mine, d, mine')

\* A loop comes to the first entry of its lane, or to the end.
LEMMA ComeToTurns ==
  ASSUME NEW t \in Threads, NEW e, e = Firsts(head, pc, taken, loop_n)[t],
         AtomicShape, Atomic!ComeTo(t, e), pc[t] \in {"idle", "taken"},
         pc' = [pc EXCEPT ![t] = "idle"], taken' \in [Threads -> Entries \cup {NULL}],
         \A u \in Threads \ {t} : taken'[u] = taken[u],
         NEW c, ChainsHold(next, Firsts(head, pc, taken, loop_n), c),
         HandsHold(c, pc, entry, mine)
  PROVE  AtomicShape' /\ \E d : AtomicTurned(c, d)
<1> DEFINE first == Firsts(head, pc, taken, loop_n)
           second == Firsts(head', pc', taken', loop_n')
           x == Atomic!After(e)
<1>1. /\ head \in Entries \cup {NULL}
      /\ next \in [Entries -> Entries \cup {NULL}]
      /\ mine \in [Threads -> SUBSET Entries]
      /\ pc \in [Threads -> {"idle", "link", "swap", "taken"}]
      /\ entry \in [Threads -> Entries \cup {NULL}]
      /\ cur \in [Threads -> Entries \cup {NULL}]
      /\ taken \in [Threads -> Entries \cup {NULL}]
      /\ pos \in [Threads -> Entries \cup {NULL}]
      /\ loop_n \in [Threads -> Entries \cup {NULL}]
  BY DEF AtomicShape, Atomic!TypeOK, Atomic!Link
<1>2. /\ pos' = [pos EXCEPT ![t] = e] /\ loop_n' = [loop_n EXCEPT ![t] = x]
      /\ mine' = [mine EXCEPT ![t] = @ \cup ({e} \ {NULL})]
      /\ head' = head /\ next' = next /\ entry' = entry /\ cur' = cur
  BY DEF Atomic!ComeTo
<1>3. /\ first \in [Lanes -> Entries \cup {NULL}] /\ t \in Lanes /\ t # NoThread
      /\ e = first[t]
  BY <1>1, LibraryAssumption DEF Firsts, Lanes
<1>4. e \in Entries \cup {NULL} /\ x \in Entries \cup {NULL}
      /\ (e = NULL => x = NULL) /\ (e # NULL => x = next[e])
  BY <1>1, <1>3 DEF Atomic!After
<1> HIDE DEF x
<1>5. second = [first EXCEPT ![t] = x]
  <2>1. second = [l \in Lanes |-> IF l = NoThread THEN head'
                                  ELSE IF pc'[l] = "taken" THEN taken'[l] ELSE loop_n'[l]]
    BY DEF Firsts
  <2>2. \A l \in Lanes : second[l] = IF l = t THEN x ELSE first[l]
    BY <1>1, <1>2, <1>3, <2>1 DEF Firsts, Lanes
  <2> QED
    BY <1>3, <2>1, <2>2
<1>6. AtomicShape'
  <2>1. mine' \in [Threads -> SUBSET Entries]
    BY <1>1, <1>2, <1>4
  <2>2. /\ pc' \in [Threads -> {"idle", "link", "swap", "taken"}]
        /\ pos' \in [Threads -> Entries \cup {NULL}]
        /\ loop_n' \in [Threads -> Entries \cup {NULL}]
    BY <1>1, <1>2, <1>4
  <2>3. Atomic!TypeOK'
    BY <1>1, <1>2, <2>1, <2>2 DEF Atomic!TypeOK, Atomic!Link
  <2>4. \A u \in Threads : pc'[u] \in {"link", "swap"} => pc'[u] = pc[u]
    BY <1>1
  <2>5. \A u \in Threads : pos'[u] = NULL => loop_n'[u] = NULL
    BY <1>1, <1>2, <1>4 DEF AtomicShape
  <2> QED
    BY <1>2, <2>3, <2>4, <2>5 DEF AtomicShape
<1>7. Adds(pc') = Adds(pc)
  <2>1. \A u \in Threads : pc'[u] \in {"link", "swap"} <=> pc[u] \in {"link", "swap"}
    BY <1>1
  <2> QED
    BY <2>1 DEF Adds
<1> HIDE DEF first, second
<1>8. CASE e = NULL
  <2>1. x = first[t] /\ second = first
    BY <1>3, <1>4, <1>5, <1>8
  <2>2. mine' = mine
    BY <1>1, <1>2, <1>8
  <2>3. ChainsHold(next', second, c)
    BY <1>2, <2>1 DEF first
  <2>4. HandsHold(c, pc', entry', mine')
    BY <1>2, <1>7, <2>2 DEF HandsHold
  <2> QED
    BY <1>6, <2>2, <2>3, <2>4 DEF AtomicTurned, StackTurn, second
<1>9. CASE e # NULL
  <2> DEFINE d == Shortened(c, t)
  <2>1. ChainsHold(next, first, c)
    BY DEF first
  <2>2. c[t] # <<>> /\ Head(c[t]) = e
    BY <1>3, <1>9, <2>1, LaneIs
  <2>3. second[t] = next[first[t]] /\ \A m \in Lanes \ {t} : second[m] = first[m]
    BY <1>3, <1>4, <1>5, <1>9
  <2>4. /\ ChainsHold(next, second, d)
        /\ \A y : Off(d, Lanes, y) <=> Off(c, Lanes, y) \/ y = e
    BY <1>3, <2>1, <2>2, <2>3, LaneShortens
  <2>5. mine' = [mine EXCEPT ![t] = @ \cup {Head(c[t])}]
    BY <1>2, <1>9, <2>2
  <2>6. \A u \in Threads : mine'[u] = IF u = t THEN mine[t] \cup {e} ELSE mine[u]
    BY <1>1, <2>2, <2>5
  <2>7. ~Off(c, Lanes, e)
    <3>1. c[t][1] = e /\ 1 \in 1 .. Len(c[t])
      BY <1>3, <2>1, <2>2, LaneIs
    <3> QED
      BY <1>3, <3>1 DEF Off
  <2>8. HandsHold(d, pc', entry', mine')
    <3> HIDE DEF d
    <3>1. \A u, v \in Threads : \A y \in mine'[u] : y \in mine'[v] => u = v
      BY <2>6, <2>7 DEF HandsHold
    <3>2. \A u \in Threads : \A y \in mine'[u] : Off(d, Lanes, y)
      BY <2>4, <2>6 DEF HandsHold
    <3>3. \A u \in Adds(pc') : entry'[u] \in Entries /\ Off(d, Lanes, entry'[u])
      BY <1>2, <1>7, <2>4 DEF HandsHold
    <3>4. \A u \in Adds(pc') : \A v \in Threads : entry'[u] \notin mine'[v]
      BY <1>2, <1>7, <2>6, <2>7 DEF HandsHold
    <3>5. \A u, v \in Adds(pc') : entry'[u] = entry'[v] => u = v
      BY <1>2, <1>7 DEF HandsHold
    <3> QED
      BY <3>1, <3>2, <3>3, <3>4, <3>5 DEF HandsHold
  <2>9. StackTurn(c, mine, d, mine')
    BY <2>2, <2>5 DEF StackTurn
  <2> QED
    BY <1>2, <1>6, <2>4, <2>8, <2>9 DEF AtomicTurned, second
<1> QED
  BY <1>8, <1>9

\* Every step of an add, of a take of all and of a loop is one of the stack.
LEMMA AtomicTurns ==
  ASSUME AtomicShape, [Atomic!Next]_(Atomic!list_vars),
         NEW c, ChainsHold(next, Firsts(head, pc, taken, loop_n), c),
         HandsHold(c, pc, entry, mine)
  PROVE  AtomicShape' /\ \E d : AtomicTurned(c, d)
<1> DEFINE first == Firsts(head, pc, taken, loop_n)
           second == Firsts(head', pc', taken', loop_n')
<1>1. /\ head \in Entries \cup {NULL}
      /\ next \in [Entries -> Entries \cup {NULL}]
      /\ mine \in [Threads -> SUBSET Entries]
      /\ pc \in [Threads -> {"idle", "link", "swap", "taken"}]
      /\ entry \in [Threads -> Entries \cup {NULL}]
      /\ cur \in [Threads -> Entries \cup {NULL}]
      /\ taken \in [Threads -> Entries \cup {NULL}]
      /\ pos \in [Threads -> Entries \cup {NULL}]
      /\ loop_n \in [Threads -> Entries \cup {NULL}]
  BY DEF AtomicShape, Atomic!TypeOK, Atomic!Link
<1>2. first \in [Lanes -> Entries \cup {NULL}] /\ first[NoThread] = head
      /\ NoThread \notin Threads /\ NULL \notin Entries
  BY <1>1, LibraryAssumption DEF Firsts, Lanes
<1>3. second = [l \in Lanes |-> IF l = NoThread THEN head'
                                ELSE IF pc'[l] = "taken" THEN taken'[l] ELSE loop_n'[l]]
  BY DEF Firsts
<1>4. first = [l \in Lanes |-> IF l = NoThread THEN head
                               ELSE IF pc[l] = "taken" THEN taken[l] ELSE loop_n[l]]
  BY DEF Firsts
<1> HIDE DEF first, second
<1>5. ASSUME NEW t \in Threads, NEW e \in Entries, Atomic!Add(t, e)
      PROVE  AtomicShape' /\ \E d : AtomicTurned(c, d)
  <2>1. /\ pc[t] = "idle" /\ e \in mine[t]
        /\ entry' = [entry EXCEPT ![t] = e] /\ mine' = [mine EXCEPT ![t] = @ \ {e}]
        /\ pc' = [pc EXCEPT ![t] = "link"]
        /\ UNCHANGED <<head, next, cur, taken, pos, loop_n>>
    BY <1>5 DEF Atomic!Add
  <2>2. AtomicShape'
    <3>1. Atomic!TypeOK'
      BY <1>1, <2>1 DEF Atomic!TypeOK, Atomic!Link
    <3> QED
      BY <1>1, <2>1, <3>1 DEF AtomicShape
  <2>3. second = first
    <3>1. \A l \in Threads :
            (IF pc'[l] = "taken" THEN taken'[l] ELSE loop_n'[l])
              = IF pc[l] = "taken" THEN taken[l] ELSE loop_n[l]
      BY <1>1, <2>1
    <3> QED
      BY <1>3, <1>4, <2>1, <3>1 DEF Lanes
  <2>4. Adds(pc') = Adds(pc) \cup {t} /\ t \notin Adds(pc)
    <3>1. \A u \in Threads : pc'[u] = IF u = t THEN "link" ELSE pc[u]
      BY <1>1, <2>1
    <3> QED
      BY <2>1, <3>1 DEF Adds
  <2>5. \A u \in Threads : /\ mine'[u] = IF u = t THEN mine[t] \ {e} ELSE mine[u]
                           /\ entry'[u] = IF u = t THEN e ELSE entry[u]
    BY <1>1, <2>1
  <2>6. HandsHold(c, pc', entry', mine')
    <3>1. \A u, v \in Threads : \A y \in mine'[u] : y \in mine'[v] => u = v
      BY <2>5 DEF HandsHold
    <3>2. \A u \in Threads : \A y \in mine'[u] : Off(c, Lanes, y)
      BY <2>5 DEF HandsHold
    <3>3. \A u \in Adds(pc') : entry'[u] \in Entries /\ Off(c, Lanes, entry'[u])
      BY <2>1, <2>4, <2>5 DEF HandsHold, Adds
    <3>4. \A u \in Adds(pc') : \A v \in Threads : entry'[u] \notin mine'[v]
      BY <2>1, <2>4, <2>5 DEF HandsHold, Adds
    <3>5. \A u, v \in Adds(pc') : entry'[u] = entry'[v] => u = v
      BY <2>1, <2>4, <2>5 DEF HandsHold, Adds
    <3> QED
      BY <3>1, <3>2, <3>3, <3>4, <3>5 DEF HandsHold
  <2>7. StackTurn(c, mine, c, mine')
    BY <2>1 DEF StackTurn
  <2>8. AtomicTurned(c, c)
    BY <2>1, <2>3, <2>6, <2>7 DEF AtomicTurned, first, second
  <2> QED
    BY <2>2, <2>8
<1>6. ASSUME NEW t \in Threads, Atomic!AddLink(t)
      PROVE  AtomicShape' /\ \E d : AtomicTurned(c, d)
  <2>1. /\ pc[t] = "link" /\ cur' = [cur EXCEPT ![t] = head]
        /\ next' = [next EXCEPT ![entry[t]] = head]
        /\ pc' = [pc EXCEPT ![t] = "swap"]
        /\ UNCHANGED <<head, mine, entry, taken, pos, loop_n>>
    BY <1>6 DEF Atomic!AddLink
  <2>2. Adds(pc') = Adds(pc) /\ t \in Adds(pc)
    <3>1. \A u \in Threads : pc'[u] = IF u = t THEN "swap" ELSE pc[u]
      BY <1>1, <2>1
    <3> QED
      BY <2>1, <3>1 DEF Adds
  <2>3. /\ entry[t] \in Entries /\ Off(c, Lanes, entry[t])
        /\ \A u \in Adds(pc) : entry[u] = entry[t] => u = t
    BY <2>2 DEF HandsHold
  <2>4. AtomicShape'
    <3>1. Atomic!TypeOK'
      BY <1>1, <2>1 DEF Atomic!TypeOK, Atomic!Link
    <3>2. ASSUME NEW u \in Threads, pc'[u] = "swap" PROVE next'[entry'[u]] = cur'[u]
      <4>1. CASE u = t
        BY <1>1, <2>1, <2>3, <4>1
      <4>2. CASE u # t
        <5>1. pc[u] = "swap" /\ u \in Adds(pc) /\ entry[u] \in Entries
          BY <1>1, <2>1, <3>2, <4>2 DEF Adds, AtomicShape
        <5>2. next[entry[u]] = cur[u] /\ entry[u] # entry[t]
          BY <2>3, <4>2, <5>1 DEF AtomicShape
        <5> QED
          BY <1>1, <2>1, <4>2, <5>1, <5>2
      <4> QED
        BY <4>1, <4>2
    <3>3. \A u \in Threads : pc'[u] \in {"link", "swap"} => entry'[u] \in Entries
      BY <1>1, <2>1, <2>3 DEF AtomicShape
    <3> QED
      BY <2>1, <3>1, <3>2, <3>3 DEF AtomicShape
  <2>5. second = first
    <3>1. \A l \in Threads :
            (IF pc'[l] = "taken" THEN taken'[l] ELSE loop_n'[l])
              = IF pc[l] = "taken" THEN taken[l] ELSE loop_n[l]
      BY <1>1, <2>1
    <3> QED
      BY <1>3, <1>4, <2>1, <3>1 DEF Lanes
  <2>6. ChainsHold(next', second, c)
    <3>1. ChainsHold(next, first, c)
      BY DEF first
    <3>2. ChainsHold([next EXCEPT ![entry[t]] = head], first, c)
      BY <1>1, <2>3, <3>1, LanesStay
    <3> QED
      BY <2>1, <2>5, <3>2
  <2>7. HandsHold(c, pc', entry', mine')
    BY <2>1, <2>2 DEF HandsHold
  <2>8. AtomicTurned(c, c)
    BY <2>1, <2>6, <2>7 DEF AtomicTurned, StackTurn, second
  <2> QED
    BY <2>4, <2>8
<1>7. ASSUME NEW t \in Threads, Atomic!AddSwap(t)
      PROVE  AtomicShape' /\ \E d : AtomicTurned(c, d)
  <2> DEFINE e == entry[t]
  <2>1. /\ pc[t] = "swap" /\ cur' = [cur EXCEPT ![t] = NULL]
        /\ UNCHANGED <<next, mine, taken, pos, loop_n>>
    BY <1>7 DEF Atomic!AddSwap
  <2>2. t \in Adds(pc)
    BY <2>1 DEF Adds
  <2>3. /\ e \in Entries /\ Off(c, Lanes, e) /\ next[e] = cur[t]
        /\ \A u \in Threads : e \notin mine[u]
        /\ \A u \in Adds(pc) : entry[u] = e => u = t
    BY <2>1, <2>2 DEF HandsHold, AtomicShape
  <2> HIDE DEF e
  <2>4. CASE head = cur[t]
    <3> DEFINE d == Grown(c, e)
    <3>1. /\ head' = e /\ entry' = [entry EXCEPT ![t] = NULL]
          /\ pc' = [pc EXCEPT ![t] = "idle"]
      BY <1>7, <2>4 DEF Atomic!AddSwap, Atomic!StillFirst, e
    <3>2. AtomicShape'
      <4>1. Atomic!TypeOK'
        BY <1>1, <2>1, <2>3, <3>1 DEF Atomic!TypeOK, Atomic!Link
      <4> QED
        BY <1>1, <2>1, <3>1, <4>1 DEF AtomicShape
    <3>3. second[NoThread] = e /\ \A m \in Lanes \ {NoThread} : second[m] = first[m]
      <4>1. \A l \in Threads :
              (IF pc'[l] = "taken" THEN taken'[l] ELSE loop_n'[l])
                = IF pc[l] = "taken" THEN taken[l] ELSE loop_n[l]
        BY <1>1, <2>1, <3>1
      <4>2. \A l \in Lanes : second[l] = IF l = NoThread THEN e ELSE first[l]
        BY <1>2, <1>3, <1>4, <3>1, <4>1 DEF Lanes
      <4> QED
        BY <4>2 DEF Lanes
    <3>4. /\ ChainsHold(next, second, d)
          /\ \A y : Off(d, Lanes, y) <=> Off(c, Lanes, y) /\ y # e
      <4>1. ChainsHold(next, first, c)
        BY DEF first
      <4>2. next[e] = first[NoThread]
        BY <1>2, <2>3, <2>4
      <4> QED
        BY <2>3, <3>3, <4>1, <4>2, LaneGrows
    <3>5. Adds(pc') = Adds(pc) \ {t}
      <4>1. \A u \in Threads : pc'[u] = IF u = t THEN "idle" ELSE pc[u]
        BY <1>1, <3>1
      <4> QED
        BY <4>1 DEF Adds
    <3>6. \A u \in Threads \ {t} : entry'[u] = entry[u]
      BY <1>1, <3>1
    <3>7. StackTurn(c, mine, d, mine')
      BY <2>1, <2>3 DEF StackTurn
    <3>8. HandsHold(d, pc', entry', mine')
      <4> HIDE DEF d
      <4>1. \A u, v \in Threads : \A y \in mine'[u] : y \in mine'[v] => u = v
        BY <2>1 DEF HandsHold
      <4>2. \A u \in Threads : \A y \in mine'[u] : Off(d, Lanes, y)
        BY <2>1, <2>3, <3>4 DEF HandsHold
      <4>3. \A u \in Adds(pc') : entry'[u] \in Entries /\ Off(d, Lanes, entry'[u])
        <5>1. \A u \in Adds(pc) \ {t} : /\ entry[u] \in Entries
                                        /\ Off(c, Lanes, entry[u]) /\ entry[u] # e
          BY <2>3 DEF HandsHold
        <5> QED
          BY <3>4, <3>5, <3>6, <5>1 DEF Adds
      <4>4. \A u \in Adds(pc') : \A v \in Threads : entry'[u] \notin mine'[v]
        BY <2>1, <3>5, <3>6 DEF HandsHold, Adds
      <4>5. \A u, v \in Adds(pc') : entry'[u] = entry'[v] => u = v
        BY <3>5, <3>6 DEF HandsHold, Adds
      <4> QED
        BY <4>1, <4>2, <4>3, <4>4, <4>5 DEF HandsHold
    <3>9. AtomicTurned(c, d)
      BY <2>1, <3>4, <3>7, <3>8 DEF AtomicTurned, second
    <3> QED
      BY <3>2, <3>9
  <2>5. CASE head # cur[t]
    <3>1. /\ pc' = [pc EXCEPT ![t] = "link"] /\ head' = head /\ entry' = entry
      BY <1>7, <2>5 DEF Atomic!AddSwap, Atomic!StillFirst
    <3>2. AtomicShape'
      <4>1. Atomic!TypeOK'
        BY <1>1, <2>1, <3>1 DEF Atomic!TypeOK, Atomic!Link
      <4> QED
        BY <1>1, <2>1, <2>3, <3>1, <4>1 DEF AtomicShape, e
    <3>3. second = first
      <4>1. \A l \in Threads :
              (IF pc'[l] = "taken" THEN taken'[l] ELSE loop_n'[l])
                = IF pc[l] = "taken" THEN taken[l] ELSE loop_n[l]
        BY <1>1, <2>1, <3>1
      <4> QED
        BY <1>3, <1>4, <3>1, <4>1 DEF Lanes
    <3>4. Adds(pc') = Adds(pc)
      <4>1. \A u \in Threads : pc'[u] = IF u = t THEN "link" ELSE pc[u]
        BY <1>1, <3>1
      <4> QED
        BY <2>1, <4>1 DEF Adds
    <3>5. HandsHold(c, pc', entry', mine')
      BY <2>1, <3>1, <3>4 DEF HandsHold
    <3>6. AtomicTurned(c, c)
      BY <2>1, <3>3, <3>5 DEF AtomicTurned, StackTurn, first, second
    <3> QED
      BY <3>2, <3>6
  <2> QED
    BY <2>4, <2>5
<1>8. ASSUME NEW t \in Threads, Atomic!Splice(t)
      PROVE  AtomicShape' /\ \E d : AtomicTurned(c, d)
  <2> DEFINE d == AllTaken(c, t)
  <2>1. /\ pc[t] = "idle" /\ pos[t] = NULL /\ taken' = [taken EXCEPT ![t] = head]
        /\ head' = NULL /\ pc' = [pc EXCEPT ![t] = "taken"]
        /\ UNCHANGED <<next, mine, entry, cur, pos, loop_n>>
    BY <1>8 DEF Atomic!Splice
  <2>2. AtomicShape'
    <3>1. Atomic!TypeOK'
      BY <1>1, <2>1 DEF Atomic!TypeOK, Atomic!Link
    <3> QED
      BY <1>1, <2>1, <3>1 DEF AtomicShape
  <2>3. c[t] = <<>>
    <3>1. first[t] = NULL /\ t \in Lanes
      BY <1>2, <1>4, <2>1 DEF AtomicShape, Lanes
    <3>2. ChainsHold(next, first, c)
      BY DEF first
    <3> QED
      BY <3>1, <3>2, LaneIs
  <2>4. /\ second[t] = first[NoThread] /\ second[NoThread] = NULL
        /\ \A m \in Lanes \ {t, NoThread} : second[m] = first[m]
    <3>1. \A l \in Threads :
            (IF pc'[l] = "taken" THEN taken'[l] ELSE loop_n'[l])
              = IF l = t THEN head ELSE IF pc[l] = "taken" THEN taken[l] ELSE loop_n[l]
      BY <1>1, <2>1
    <3>2. \A l \in Lanes : second[l] = IF l = NoThread THEN NULL
                                       ELSE IF l = t THEN head ELSE first[l]
      BY <1>2, <1>3, <1>4, <2>1, <3>1 DEF Lanes
    <3> QED
      BY <1>2, <3>2 DEF Lanes
  <2>5. /\ ChainsHold(next, second, d)
        /\ \A y : Off(d, Lanes, y) <=> Off(c, Lanes, y)
    <3>1. ChainsHold(next, first, c)
      BY DEF first
    <3> QED
      BY <2>3, <2>4, <3>1, LanesMove
  <2>6. Adds(pc') = Adds(pc)
    <3>1. \A u \in Threads : pc'[u] = IF u = t THEN "taken" ELSE pc[u]
      BY <1>1, <2>1
    <3> QED
      BY <2>1, <3>1 DEF Adds
  <2>7. StackTurn(c, mine, d, mine')
    BY <2>1, <2>3 DEF StackTurn
  <2>8. HandsHold(d, pc', entry', mine')
    <3> HIDE DEF d
    <3> QED
      BY <2>1, <2>5, <2>6 DEF HandsHold
  <2>9. AtomicTurned(c, d)
    BY <2>1, <2>5, <2>7, <2>8 DEF AtomicTurned, second
  <2> QED
    BY <2>2, <2>9
<1>9. ASSUME NEW t \in Threads, Atomic!LoopBegins(t)
      PROVE  AtomicShape' /\ \E d : AtomicTurned(c, d)
  <2> DEFINE e == taken[t]
  <2>1. /\ pc[t] = "taken" /\ Atomic!ComeTo(t, e)
        /\ taken' = [taken EXCEPT ![t] = NULL] /\ pc' = [pc EXCEPT ![t] = "idle"]
    BY <1>9 DEF Atomic!LoopBegins
  <2>2. e = Firsts(head, pc, taken, loop_n)[t]
    BY <1>2, <2>1 DEF Firsts, Lanes
  <2>3. /\ taken' \in [Threads -> Entries \cup {NULL}]
        /\ \A u \in Threads \ {t} : taken'[u] = taken[u]
    BY <1>1, <2>1
  <2> HIDE DEF e
  <2> QED
    BY <2>1, <2>2, <2>3, ComeToTurns
<1>10. ASSUME NEW t \in Threads, Atomic!LoopGoesOn(t)
       PROVE  AtomicShape' /\ \E d : AtomicTurned(c, d)
  <2> DEFINE e == loop_n[t]
  <2>1. /\ pc[t] = "idle" /\ Atomic!ComeTo(t, e) /\ pc' = pc /\ taken' = taken
    BY <1>10 DEF Atomic!LoopGoesOn, Atomic!GoesOnAt
  <2>2. e = Firsts(head, pc, taken, loop_n)[t]
    BY <1>2, <2>1 DEF Firsts, Lanes
  <2>3. pc' = [pc EXCEPT ![t] = "idle"]
    BY <1>1, <2>1
  <2> HIDE DEF e
  <2> QED
    BY <1>1, <2>1, <2>2, <2>3, ComeToTurns
<1>11. CASE UNCHANGED Atomic!list_vars
  <2>1. UNCHANGED <<head, next, mine, pc, entry, cur, taken, pos, loop_n>>
    BY <1>11 DEF Atomic!list_vars
  <2>2. AtomicShape'
    BY <2>1 DEF AtomicShape, Atomic!TypeOK
  <2>3. AtomicTurned(c, c)
    BY <2>1 DEF AtomicTurned, StackTurn
  <2> QED
    BY <2>2, <2>3
<1> QED
  BY <1>5, <1>6, <1>7, <1>8, <1>9, <1>10, <1>11 DEF Atomic!Next

LEMMA AtomicStep == AtomicInv /\ [Atomic!Next]_(Atomic!list_vars) => AtomicInv'
<1> SUFFICES ASSUME AtomicInv, [Atomic!Next]_(Atomic!list_vars) PROVE AtomicInv'
  OBVIOUS
<1>1. PICK c : /\ ChainsHold(next, Firsts(head, pc, taken, loop_n), c)
               /\ HandsHold(c, pc, entry, mine)
  BY DEF AtomicInv
<1>2. AtomicShape' /\ \E d : AtomicTurned(c, d)
  BY <1>1, AtomicTurns DEF AtomicInv
<1> QED
  BY <1>2 DEF AtomicInv, AtomicTurned

\* What the chains and hands are to the lock-free list, and the stack to both.
LEMMA StackIs ==
  ASSUME NEW hd, NEW p, NEW tk, NEW n, NEW f, NEW c,
         ChainsHold(f, Firsts(hd, p, tk, n), c)
  PROVE  /\ Atomic!Links!From(f, hd, NULL, Cardinality(Entries) + 1) = c[NoThread]
         /\ [t \in Threads |->
               Atomic!Links!From(f, IF p[t] = "taken" THEN tk[t] ELSE n[t], NULL,
                                 Cardinality(Entries) + 1)]
              = [t \in Threads |-> c[t]]
<1> DEFINE first == Firsts(hd, p, tk, n)
<1>1. /\ NoThread \in Lanes /\ Threads \subseteq Lanes /\ first[NoThread] = hd
      /\ \A t \in Threads : first[t] = IF p[t] = "taken" THEN tk[t] ELSE n[t]
  BY LibraryAssumption DEF Firsts, Lanes
<1> HIDE DEF first
<1>2. ChainsHold(f, first, c)
  BY DEF first
<1>3. \A l \in Lanes :
        Atomic!Links!From(f, first[l], NULL, Cardinality(Entries) + 1) = c[l]
  BY <1>2, LaneIsWalked
<1> QED
  BY <1>1, <1>3

LEMMA AtomicRefines ==
  AtomicInv /\ [Atomic!Next]_(Atomic!list_vars)
    => [Atomic!Stack!Next]_(Atomic!Stack!vars)
<1> SUFFICES ASSUME AtomicInv, [Atomic!Next]_(Atomic!list_vars)
             PROVE  [Atomic!Stack!Next]_(Atomic!Stack!vars)
  OBVIOUS
<1> DEFINE st == Atomic!Chain(head)
           ba == [t \in Threads |->
                    Atomic!Chain(IF pc[t] = "taken" THEN taken[t] ELSE loop_n[t])]
<1>1. PICK c : /\ ChainsHold(next, Firsts(head, pc, taken, loop_n), c)
               /\ HandsHold(c, pc, entry, mine)
  BY DEF AtomicInv
<1>2. PICK d : AtomicTurned(c, d)
  BY <1>1, AtomicTurns DEF AtomicInv
<1>3. /\ c \in [Lanes -> Seq(Entries)] /\ d \in [Lanes -> Seq(Entries)]
      /\ NoThread \in Lanes /\ Threads \subseteq Lanes /\ NoThread \notin Threads
  BY <1>1, <1>2, LibraryAssumption DEF AtomicTurned, ChainsHold, Lanes
<1>4. Atomic!Cardinality(Entries) = Cardinality(Entries)
  BY DEF Atomic!Cardinality, Cardinality
<1>5. st = c[NoThread] /\ ba = [t \in Threads |-> c[t]]
  BY <1>1, <1>4, StackIs DEF Atomic!Chain
<1>6. st' = d[NoThread] /\ ba' = [t \in Threads |-> d[t]]
  <2> DEFINE hd == head'
             p == pc'
             tk == taken'
             n == loop_n'
             f == next'
  <2>1. ChainsHold(f, Firsts(hd, p, tk, n), d)
    BY <1>2 DEF AtomicTurned
  <2>2. /\ st' = Atomic!Links!From(f, hd, NULL, Cardinality(Entries) + 1)
        /\ ba' = [t \in Threads |->
                    Atomic!Links!From(f, IF p[t] = "taken" THEN tk[t] ELSE n[t], NULL,
                                      Cardinality(Entries) + 1)]
    BY <1>4 DEF Atomic!Chain
  <2> HIDE DEF hd, p, tk, n, f, st, ba
  <2> QED
    BY <2>1, <2>2, StackIs
<1> HIDE DEF st, ba
<1>7. \A t \in Threads : ba[t] = c[t]
  BY <1>5
<1>8. StackTurn(c, mine, d, mine')
  BY <1>2 DEF AtomicTurned
<1>9. CASE d = c /\ mine' = mine
  <2>1. st' = st /\ ba' = ba /\ mine' = mine
    BY <1>5, <1>6, <1>9
  <2> QED
    BY <2>1 DEF st, ba, Atomic!Stack!vars
<1>10. CASE d = c /\ \E t \in Threads : \E e \in mine[t] :
                       mine' = [mine EXCEPT ![t] = @ \ {e}]
  <2>1. PICK t \in Threads : \E e \in mine[t] : mine' = [mine EXCEPT ![t] = @ \ {e}]
    BY <1>10
  <2>2. st' = st /\ ba' = ba
    BY <1>5, <1>6, <1>10
  <2>3. Atomic!Stack!Give(t)
    BY <2>1, <2>2 DEF st, ba, Atomic!Stack!Give
  <2> QED
    BY <2>3 DEF Atomic!Stack!Next
<1>11. CASE mine' = mine /\ \E e \in Entries :
              /\ Off(c, Lanes, e) /\ \A t \in Threads : e \notin mine[t]
              /\ d = Grown(c, e)
  <2>1. PICK e \in Entries : /\ Off(c, Lanes, e) /\ \A t \in Threads : e \notin mine[t]
                             /\ d = Grown(c, e)
    BY <1>11
  <2>2. /\ d[NoThread] = <<e>> \o c[NoThread]
        /\ \A t \in Threads : d[t] = c[t]
    BY <1>3, <2>1 DEF Grown
  <2>3. st' = <<e>> \o st /\ ba' = ba
    BY <1>5, <1>6, <2>2
  <2>4. \A l \in Lanes : e \notin Atomic!Stack!Range(c[l])
    <3> SUFFICES ASSUME NEW l \in Lanes PROVE e \notin Atomic!Stack!Range(c[l])
      OBVIOUS
    <3>1. DOMAIN c[l] = 1 .. Len(c[l])
      BY <1>3
    <3> QED
      BY <2>1, <3>1 DEF Off, Atomic!Stack!Range
  <2>5. e \notin Atomic!Stack!Held
    <3> SUFFICES ASSUME e \in Atomic!Stack!Held PROVE FALSE
      OBVIOUS
    <3>1. \/ \E t \in Threads : e \in mine[t]
          \/ e \in Atomic!Stack!Range(st)
          \/ \E t \in Threads : e \in Atomic!Stack!Range(ba[t])
      BY DEF Atomic!Stack!Held, st, ba
    <3>2. e \notin Atomic!Stack!Range(st)
      BY <1>3, <1>5, <2>4
    <3>3. \A t \in Threads : e \notin Atomic!Stack!Range(ba[t])
      BY <1>3, <1>7, <2>4
    <3> QED
      BY <2>1, <3>1, <3>2, <3>3
  <2>6. Atomic!Stack!Add
    BY <1>11, <2>3, <2>5 DEF st, ba, Atomic!Stack!Add
  <2> QED
    BY <2>6 DEF Atomic!Stack!Next
<1>12. CASE mine' = mine /\ \E t \in Threads : c[t] = <<>> /\ d = AllTaken(c, t)
  <2>1. PICK t \in Threads : c[t] = <<>> /\ d = AllTaken(c, t)
    BY <1>12
  <2>2. /\ d[NoThread] = <<>> /\ d[t] = c[NoThread]
        /\ \A u \in Threads \ {t} : d[u] = c[u]
    BY <1>3, <2>1 DEF AllTaken
  <2>3. ba[t] = <<>> /\ st' = <<>> /\ ba' = [ba EXCEPT ![t] = st]
    <3>1. ba' = [u \in Threads |-> d[u]] /\ ba = [u \in Threads |-> c[u]]
      BY <1>5, <1>6
    <3>2. \A u \in Threads : d[u] = IF u = t THEN st ELSE ba[u]
      BY <1>5, <1>7, <2>2
    <3> QED
      BY <1>6, <1>7, <2>1, <2>2, <3>1, <3>2
  <2>4. Atomic!Stack!TakeAll(t)
    BY <1>12, <2>3 DEF st, ba, Atomic!Stack!TakeAll
  <2> QED
    BY <2>4 DEF Atomic!Stack!Next
<1>13. CASE \E t \in Threads : /\ c[t] # <<>> /\ d = Shortened(c, t)
                               /\ mine' = [mine EXCEPT ![t] = @ \cup {Head(c[t])}]
  <2>1. PICK t \in Threads : /\ c[t] # <<>> /\ d = Shortened(c, t)
                             /\ mine' = [mine EXCEPT ![t] = @ \cup {Head(c[t])}]
    BY <1>13
  <2>2. /\ d[NoThread] = c[NoThread] /\ d[t] = Tail(c[t])
        /\ \A u \in Threads \ {t} : d[u] = c[u]
    BY <1>3, <2>1 DEF Shortened
  <2>3. /\ ba[t] # <<>> /\ st' = st
        /\ mine' = [mine EXCEPT ![t] = @ \cup {Head(ba[t])}]
    BY <1>5, <1>6, <1>7, <2>1, <2>2
  <2>4. ba' = [ba EXCEPT ![t] = Tail(@)]
    <3>1. ba' = [u \in Threads |-> d[u]] /\ ba = [u \in Threads |-> c[u]]
      BY <1>5, <1>6
    <3>2. \A u \in Threads : d[u] = IF u = t THEN Tail(ba[t]) ELSE ba[u]
      BY <1>7, <2>2
    <3> QED
      BY <3>1, <3>2
  <2>5. Atomic!Stack!Meet(t)
    BY <2>3, <2>4 DEF st, ba, Atomic!Stack!Meet
  <2> QED
    BY <2>5 DEF Atomic!Stack!Next
<1> QED
  BY <1>8, <1>9, <1>10, <1>11, <1>12, <1>13 DEF StackTurn

\* Nothing is on the stack, nor taken from it, to begin with.
LEMMA StackInit == Atomic!Init => Atomic!Stack!Init
<1> SUFFICES ASSUME Atomic!Init PROVE Atomic!Stack!Init
  OBVIOUS
<1> DEFINE c == [l \in Lanes |-> <<>>]
           first == Firsts(head, pc, taken, loop_n)
<1>1. \A l \in Lanes : first[l] = NULL
  BY DEF Atomic!Init, Atomic!NothingAdded, Firsts, Lanes
<1>2. /\ c \in [Lanes -> Seq(Entries)]
      /\ \A l \in Lanes : c[l] = <<>> /\ Len(c[l]) = 0
  OBVIOUS
<1>3. NoThread \in Lanes /\ Threads \subseteq Lanes
  BY DEF Lanes
<1> HIDE DEF c, first
<1>4. ChainsHold(next, first, c)
  BY <1>1, <1>2 DEF ChainsHold, Once, LeadsAlong, At
<1>5. Atomic!Cardinality(Entries) = Cardinality(Entries)
  BY DEF Atomic!Cardinality, Cardinality
<1>6. /\ Atomic!Chain(head) = <<>>
      /\ [t \in Threads |->
            Atomic!Chain(IF pc[t] = "taken" THEN taken[t] ELSE loop_n[t])]
           = [t \in Threads |-> <<>>]
  BY <1>2, <1>3, <1>4, <1>5, StackIs DEF Atomic!Chain, first
<1> QED
  BY <1>6 DEF Atomic!Init, Atomic!Stack!Init
-----------------------------------------------------------------------------
(* HashLists.                                                              *)

\* The fields of list l and of the nodes s lead along s, and each node knows
\* the field that points to it.
Strung(f, pp, l, s) ==
  /\ \A i \in 0 .. Len(s) : f[At(l, s, i)] = IF i = Len(s) THEN NULL ELSE s[i + 1]
  /\ \A i \in 1 .. Len(s) : pp[s[i]] = At(l, s, i - 1)

\* The memory of first and next fields, and that of who points to a node.
HashFields == [Lists \cup Entries -> Entries \cup {NULL, Poison}]
HashBacks  == [Entries -> Lists \cup Entries \cup {NULL, Poison}]

\* The memory f and pp holds the lists c, and a node on none is not deleted
\* twice.
HashHolds(f, pp, c) ==
  /\ f \in HashFields /\ pp \in HashBacks
  /\ c \in [Lists -> Seq(Entries)]
  /\ \A l \in Lists : Strung(f, pp, l, c[l])
  /\ Once(c, Lists)
  /\ \A e \in Entries : Off(c, Lists, e) => pp[e] \in {NULL, Poison}

\* A loop is at a place of some list, or past it; the node that its body may
\* delete is not where it has yet to come.
HashLoopHolds(c, lp) ==
  /\ lp \in {Hash!NoLoop} \cup
       [on : {TRUE}, safe : BOOLEAN, node : Entries, next : Entries \cup {NULL}]
  /\ lp.on => \E l \in Lists : \E j :
                 Placed(c[l], NULL, lp.node, lp.next, lp.safe, j)

\* What a loop has yet to meet in the memory f.
HashRestIn(f, lp) ==
  IF ~lp.on THEN <<>>
  ELSE Hash!From(f, IF lp.safe THEN lp.next ELSE f[lp.node], NULL, Hash!Bound)

\* The inductive invariant of hash lists.
HashInv == \E c : HashHolds(field, pprev, c) /\ HashLoopHolds(c, hash_loop)

\* The cells of a list without a node, and with one before its first.
LEMMA AtWithout ==
  ASSUME NEW E, NEW s \in Seq(E), NEW l, NEW i \in 1 .. Len(s),
         NEW j \in 0 .. Len(s) - 1
  PROVE  At(l, Without(s, i), j) = IF j < i THEN At(l, s, j) ELSE At(l, s, j + 1)
<1>1. Len(Without(s, i)) = Len(s) - 1 /\ Len(s) \in Nat
  BY Removed
<1>2. CASE j = 0
  BY <1>1, <1>2 DEF At
<1>3. CASE j # 0
  <2>1. j \in 1 .. Len(s) - 1 /\ j \in 1 .. Len(s) /\ j + 1 \in 1 .. Len(s)
    BY <1>1, <1>3
  <2>2. Without(s, i)[j] = IF j < i THEN s[j] ELSE s[j + 1]
    BY <2>1 DEF Without
  <2> QED
    BY <1>1, <2>1, <2>2 DEF At
<1> QED
  BY <1>2, <1>3

\* The places of a list whose first entry is new.
LEMMA AtFirst ==
  ASSUME NEW E, NEW s \in Seq(E), NEW l, NEW e, NEW j \in 0 .. Len(s) + 1
  PROVE  At(l, InsertAt(s, 0, e), j)
           = IF j = 0 THEN l ELSE IF j = 1 THEN e ELSE At(l, s, j - 1)
<1>1. /\ Len(s) \in Nat /\ 0 \in 0 .. Len(s)
      /\ Len(InsertAt(s, 0, e)) = Len(s) + 1
  BY DEF InsertAt
<1>2. CASE j = 0
  BY <1>1, <1>2 DEF At
<1>3. CASE j # 0
  <2>1. j \in 1 .. Len(s) + 1 /\ (j # 1 => j - 1 \in 1 .. Len(s) /\ ~(j <= 0))
    BY <1>1, <1>3
  <2>2. InsertAt(s, 0, e)[j] = IF j = 1 THEN e ELSE s[j - 1]
    BY <1>1, <2>1 DEF InsertAt
  <2> QED
    BY <1>1, <1>3, <2>1, <2>2 DEF At
<1> QED
  BY <1>2, <1>3

\* A node is on a list when something knows it to be.
LEMMA IsOffIs ==
  ASSUME NEW f, NEW pp, NEW c, HashHolds(f, pp, c), NEW e \in Entries
  PROVE  Off(c, Lists, e) <=> pp[e] \in {NULL, Poison}
<1> SUFFICES ASSUME ~Off(c, Lists, e) PROVE pp[e] \notin {NULL, Poison}
  BY DEF HashHolds
<1>1. PICK l \in Lists : \E i \in 1 .. Len(c[l]) : c[l][i] = e
  BY DEF Off
<1>2. PICK i \in 1 .. Len(c[l]) : c[l][i] = e
  BY <1>1
<1>3. c[l] \in Seq(Entries) /\ Len(c[l]) \in Nat
  BY DEF HashHolds
<1>4. pp[e] = At(l, c[l], i - 1)
  BY <1>2 DEF HashHolds, Strung
<1>5. At(l, c[l], i - 1) \in Lists \cup Entries
  BY <1>3 DEF At
<1> QED
  BY <1>4, <1>5, LibraryAssumption

\* No list has a node, and no loop is going on, to begin with.
LEMMA HashInit == Hash!Init => HashInv
<1> SUFFICES ASSUME Hash!Init PROVE HashInv
  OBVIOUS
<1> DEFINE c == [l \in Lists |-> <<>>]
<1>1. /\ field \in HashFields /\ pprev \in HashBacks
      /\ \A l \in Lists : field[l] = NULL
      /\ \A e \in Entries : pprev[e] = NULL
  BY DEF Hash!Init, HashFields, HashBacks
<1>2. /\ c \in [Lists -> Seq(Entries)]
      /\ \A l \in Lists : c[l] = <<>> /\ Len(c[l]) = 0
  OBVIOUS
<1> HIDE DEF c
<1>3. \A l \in Lists : Strung(field, pprev, l, c[l])
  BY <1>1, <1>2 DEF Strung, At
<1>4. HashHolds(field, pprev, c)
  BY <1>1, <1>2, <1>3 DEF HashHolds, Once
<1>5. HashLoopHolds(c, hash_loop)
  BY DEF Hash!Init, HashLoopHolds, Hash!NoLoop
<1> QED
  BY <1>4, <1>5 DEF HashInv

\* A node is put before the first: what was first learns who points to it.
LEMMA AddFirstKeeps ==
  ASSUME NEW f, NEW pp, NEW c, HashHolds(f, pp, c), NEW nd \in Entries,
         NEW l \in Lists, pp[nd] \in {NULL, Poison},
         NEW g, g = [f EXCEPT ![nd] = f[l], ![l] = nd],
         NEW told, told = (IF f[l] = NULL THEN pp ELSE [pp EXCEPT ![f[l]] = nd]),
         NEW qq, qq = [told EXCEPT ![nd] = l]
  PROVE  HashHolds(g, qq, [c EXCEPT ![l] = InsertAt(@, 0, nd)])
<1> DEFINE s == c[l]
           t == InsertAt(s, 0, nd)
           d == [c EXCEPT ![l] = t]
<1>1. /\ f \in HashFields /\ pp \in HashBacks /\ c \in [Lists -> Seq(Entries)]
      /\ s \in Seq(Entries) /\ Len(s) \in Nat /\ 0 \in 0 .. Len(s)
      /\ Lists \cap Entries = {} /\ Off(c, Lists, nd) /\ NULL \notin Entries
  BY IsOffIs, LibraryAssumption DEF HashHolds
<1>2. /\ t \in Seq(Entries) /\ Len(t) = Len(s) + 1
      /\ \A j \in 0 .. Len(t) :
           At(l, t, j) = IF j = 0 THEN l ELSE IF j = 1 THEN nd ELSE At(l, s, j - 1)
  <2>1. t \in Seq(Entries) /\ Len(t) = Len(s) + 1
    BY <1>1, Inserted
  <2> QED
    BY <1>1, <2>1, AtFirst
<1>3. /\ \A i \in 0 .. Len(s) : f[At(l, s, i)] = IF i = Len(s) THEN NULL ELSE s[i + 1]
      /\ \A i \in 1 .. Len(s) : pp[s[i]] = At(l, s, i - 1)
  BY DEF HashHolds, Strung
<1>4. f[l] = IF Len(s) = 0 THEN NULL ELSE s[1]
  BY <1>1, <1>3 DEF At
<1>5. f[l] \in Entries \cup {NULL}
  BY <1>1, <1>4
<1>6. g \in HashFields /\ told \in HashBacks /\ qq \in HashBacks
  BY <1>1, <1>5 DEF HashFields, HashBacks
<1>7. /\ g[nd] = f[l] /\ g[l] = nd /\ qq[nd] = l
      /\ \A x \in (Lists \cup Entries) \ {nd, l} : g[x] = f[x]
      /\ \A x \in Entries \ {nd, f[l]} : qq[x] = pp[x]
      /\ f[l] \in Entries \ {nd} => qq[f[l]] = nd
  BY <1>1, <1>5, <1>6 DEF HashFields, HashBacks
<1>8. /\ \A k \in 1 .. Len(s) : s[k] \in Entries \ {nd}
      /\ \A j, k \in 1 .. Len(s) : s[j] = s[k] => j = k
      /\ \A m \in Lists \ {l} : \A j \in 1 .. Len(c[m]), k \in 1 .. Len(s) :
           c[m][j] # s[k]
  BY <1>1 DEF HashHolds, Once, Off
<1>9. Strung(g, qq, l, t)
  <2> HIDE DEF s, t
  <2>1. ASSUME NEW j \in 0 .. Len(t)
        PROVE  g[At(l, t, j)] = IF j = Len(t) THEN NULL ELSE t[j + 1]
    <3>1. CASE j = 0
      <4>1. t[1] = At(l, t, 1) /\ 1 \in 0 .. Len(t) /\ 0 # Len(t)
        BY <1>1, <1>2 DEF At
      <4>2. At(l, t, 0) = l /\ At(l, t, 1) = nd
        <5>1. 0 \in 0 .. Len(t) /\ 1 \in 0 .. Len(t) /\ 1 # 0
          BY <1>1, <1>2
        <5> QED
          BY <1>2, <5>1
      <4>3. j + 1 = 1 /\ j # Len(t)
        BY <3>1, <4>1
      <4>4. g[At(l, t, j)] = nd
        BY <1>7, <3>1, <4>2
      <4> QED
        BY <4>1, <4>2, <4>3, <4>4
    <3>2. CASE j = 1
      <4>1. CASE Len(s) = 0
        BY <1>1, <1>2, <1>4, <1>7, <3>2, <4>1
      <4>2. CASE Len(s) # 0
        <5>1. /\ t[2] = At(l, t, 2) /\ 2 \in 0 .. Len(t) /\ 1 # Len(t)
              /\ 2 - 1 = 1
          BY <1>1, <1>2, <4>2 DEF At
        <5>2. At(l, s, 1) = s[1]
          BY <1>1, <4>2 DEF At
        <5>3. t[2] = s[1]
          BY <1>2, <5>1, <5>2
        <5> QED
          BY <1>2, <1>4, <1>7, <3>2, <4>2, <5>1, <5>3
      <4> QED
        BY <4>1, <4>2
    <3>3. CASE j # 0 /\ j # 1
      <4> DEFINE k == j - 1
      <4>1. k \in 1 .. Len(s) /\ k + 1 = j /\ (k = Len(s) <=> j = Len(t))
        BY <1>1, <1>2, <3>3
      <4> HIDE DEF k
      <4>2. At(l, t, j) = s[k]
        <5>1. At(l, t, j) = At(l, s, k)
          BY <1>2, <3>3 DEF k
        <5> QED
          BY <4>1, <5>1 DEF At
      <4>3. g[s[k]] = f[s[k]]
        <5>1. s[k] \in Entries \ {nd} /\ s[k] # l
          BY <1>1, <1>8, <4>1
        <5> QED
          BY <1>7, <5>1
      <4>4. f[s[k]] = IF k = Len(s) THEN NULL ELSE s[k + 1]
        BY <1>1, <1>3, <4>1 DEF At
      <4>5. j # Len(t) => t[j + 1] = s[k + 1]
        <5> SUFFICES ASSUME j # Len(t) PROVE t[j + 1] = s[k + 1]
          OBVIOUS
        <5>1. /\ j + 1 \in 0 .. Len(t) /\ j + 1 # 0 /\ j + 1 # 1
              /\ (j + 1) - 1 = k + 1 /\ k + 1 \in 1 .. Len(s)
              /\ j + 1 \in 1 .. Len(t)
          BY <1>1, <1>2, <3>3, <4>1
        <5>2. At(l, t, j + 1) = At(l, s, k + 1)
          BY <1>2, <5>1
        <5> QED
          BY <5>1, <5>2 DEF At
      <4> QED
        BY <4>1, <4>2, <4>3, <4>4, <4>5
    <3> QED
      BY <3>1, <3>2, <3>3
  <2>2. ASSUME NEW j \in 1 .. Len(t) PROVE qq[t[j]] = At(l, t, j - 1)
    <3>1. t[j] = At(l, t, j) /\ j \in 0 .. Len(t) /\ j - 1 \in 0 .. Len(t)
      BY <1>1, <1>2 DEF At
    <3>2. CASE j = 1
      BY <1>2, <1>7, <3>1, <3>2
    <3>3. CASE j # 1
      <4> DEFINE k == j - 1
      <4>1. k \in 1 .. Len(s) /\ k + 1 = j /\ j # 0
        BY <1>1, <1>2, <3>3
      <4> HIDE DEF k
      <4>2. t[j] = s[k]
        <5>1. t[j] = At(l, s, k)
          BY <1>2, <3>1, <3>3, <4>1 DEF k
        <5> QED
          BY <4>1, <5>1 DEF At
      <4>3. CASE k = 1
        <5>1. s[k] = f[l] /\ qq[s[k]] = nd
          <6>1. s[1] = f[l] /\ s[1] \in Entries \ {nd}
            BY <1>1, <1>4, <1>8, <4>1, <4>3
          <6> QED
            BY <1>7, <4>3, <6>1
        <5> QED
          BY <1>2, <3>1, <4>2, <4>3, <5>1 DEF k
      <4>4. CASE k # 1
        <5>1. qq[s[k]] = pp[s[k]]
          <6>1. s[k] # f[l]
            BY <1>1, <1>4, <1>8, <4>1, <4>4
          <6> QED
            BY <1>7, <1>8, <4>1, <6>1
        <5>2. pp[s[k]] = At(l, s, k - 1)
          BY <1>3, <4>1
        <5>3. At(l, t, k) = At(l, s, k - 1)
          <6>1. k \in 0 .. Len(t) /\ k # 0
            BY <1>1, <1>2, <4>1
          <6> QED
            BY <1>2, <4>4, <6>1
        <5> QED
          BY <4>2, <5>1, <5>2, <5>3 DEF k
      <4> QED
        BY <4>3, <4>4
    <3> QED
      BY <3>2, <3>3
  <2> QED
    BY <2>1, <2>2 DEF Strung
<1>10. ASSUME NEW m \in Lists \ {l} PROVE Strung(g, qq, m, c[m])
  <2>1. c[m] \in Seq(Entries) /\ Strung(f, pp, m, c[m]) /\ m \notin Entries
    BY <1>1 DEF HashHolds
  <2>2. g[m] = f[m]
    BY <1>1, <1>7, <2>1
  <2>3. ASSUME NEW j \in 1 .. Len(c[m])
        PROVE  g[c[m][j]] = f[c[m][j]] /\ qq[c[m][j]] = pp[c[m][j]]
    <3>1. c[m][j] \in Entries /\ c[m][j] # nd /\ c[m][j] # l
      BY <1>1, <2>1 DEF Off
    <3>2. c[m][j] # f[l]
      <4>1. Len(s) # 0 => 1 \in 1 .. Len(s)
        BY <1>1
      <4> QED
        BY <1>1, <1>4, <1>8, <3>1, <4>1
    <3> QED
      BY <1>7, <3>1, <3>2
  <2>4. \A j \in 1 .. Len(c[m]) :
          g[c[m][j]] = f[c[m][j]] /\ qq[c[m][j]] = pp[c[m][j]]
    BY <2>3
  <2> DEFINE r == c[m]
  <2>5. /\ r \in Seq(Entries) /\ Strung(f, pp, m, r)
        /\ \A j \in 1 .. Len(r) : g[r[j]] = f[r[j]] /\ qq[r[j]] = pp[r[j]]
    BY <2>1, <2>4
  <2> HIDE DEF s, t, d, r
  <2>6. Strung(g, qq, m, r)
    <3>1. \A i \in 0 .. Len(r) : g[At(m, r, i)] = f[At(m, r, i)]
      BY <2>2, <2>5 DEF At
    <3> QED
      BY <2>5, <3>1 DEF Strung
  <2> QED
    BY <2>6 DEF r
<1> HIDE DEF t
<1>11. /\ d \in [Lists -> Seq(Entries)] /\ d[l] = t
       /\ \A m \in Lists \ {l} : d[m] = c[m]
  BY <1>1, <1>2
<1>12. \A m \in Lists : Strung(g, qq, m, d[m])
  BY <1>9, <1>10, <1>11
<1>13. \A m \in Lists :
         \A x : OnList(d, m, x) <=> OnList(c, m, x) \/ (m = l /\ x = nd)
  BY <1>1, AddOn DEF t
<1>14. Once(d, Lists)
  <2>1. c \in [Lists -> Seq(Entries)] /\ Once(c, Lists)
    BY <1>1 DEF HashHolds
  <2>2. 0 \in 0 .. Len(c[l]) /\ Off(c, Lists, nd)
    BY <1>1
  <2> QED
    BY <2>1, <2>2, AddOnce DEF t
<1>15. \A e \in Entries : Off(d, Lists, e) => qq[e] \in {NULL, Poison}
  <2> SUFFICES ASSUME NEW e \in Entries, Off(d, Lists, e) PROVE qq[e] \in {NULL, Poison}
    OBVIOUS
  <2>1. e # nd /\ Off(c, Lists, e)
    BY <1>13, OffIs
  <2>2. e # f[l]
    <3>1. Len(s) # 0 => 1 \in 1 .. Len(s)
      BY <1>1
    <3> QED
      BY <1>1, <1>4, <2>1, <3>1 DEF Off
  <2> QED
    BY <1>7, <2>1, <2>2 DEF HashHolds
<1> HIDE DEF d
<1>16. HashHolds(g, qq, d)
  BY <1>6, <1>11, <1>12, <1>14, <1>15 DEF HashHolds
<1> QED
  BY <1>16 DEF d, t

\* Who else is on a list stays on it.
LEMMA StaysOn ==
  ASSUME NEW H, NEW E, NEW c \in [H -> Seq(E)], NEW l \in H,
         NEW i \in 1 .. Len(c[l]), NEW x, x # c[l][i], ~Off(c, H, x)
  PROVE  ~Off([c EXCEPT ![l] = Without(@, i)], H, x)
<1> DEFINE s == c[l]
           t == Without(s, i)
           d == [c EXCEPT ![l] = t]
<1>1. s \in Seq(E) /\ Len(s) \in Nat /\ i \in 1 .. Len(s) /\ i \in Nat
  OBVIOUS
<1>2. /\ Len(t) = Len(s) - 1
      /\ \A j \in 1 .. Len(s) - 1 : t[j] = IF j < i THEN s[j] ELSE s[j + 1]
  BY <1>1, Removed DEF Without
<1>3. d[l] = t /\ \A m \in H \ {l} : d[m] = c[m]
  OBVIOUS
<1>4. PICK m \in H : \E j \in 1 .. Len(c[m]) : c[m][j] = x
  BY DEF Off
<1>5. PICK j \in 1 .. Len(c[m]) : c[m][j] = x
  BY <1>4
<1> HIDE DEF d
<1>6. ASSUME m # l PROVE ~Off(d, H, x)
  <2>1. d[m] = c[m]
    BY <1>3, <1>6
  <2> QED
    BY <1>5, <2>1 DEF Off
<1>7. ASSUME m = l PROVE ~Off(d, H, x)
  <2>1. j \in 1 .. Len(s) /\ s[j] = x /\ j # i /\ j \in Nat
    BY <1>1, <1>5, <1>7
  <2> HIDE DEF s, t
  <2>2. \E k \in 1 .. Len(t) : t[k] = x
    <3>1. CASE j < i
      BY <1>1, <1>2, <2>1, <3>1
    <3>2. CASE ~(j < i)
      <4>1. j - 1 \in 1 .. Len(t) /\ ~(j - 1 < i) /\ (j - 1) + 1 = j
        BY <1>1, <1>2, <2>1, <3>2
      <4>2. t[j - 1] = x
        BY <1>2, <2>1, <4>1
      <4> QED
        BY <4>1, <4>2
    <3> QED
      BY <3>1, <3>2
  <2>3. \E k \in 1 .. Len(d[l]) : d[l][k] = x
    BY <1>3, <2>2
  <2> QED
    BY <2>3 DEF Off
<1>8. ~Off(d, H, x)
  BY <1>6, <1>7
<1> QED
  BY <1>8 DEF d

\* A node is taken out by the field that points to it, whichever list's or
\* node's that is.
LEMMA DeleteKeeps ==
  ASSUME NEW f, NEW pp, NEW c, HashHolds(f, pp, c), NEW l \in Lists,
         NEW i \in 1 .. Len(c[l]), NEW nd, nd = c[l][i],
         NEW g, g = [f EXCEPT ![pp[nd]] = f[nd], ![nd] = Poison],
         NEW told, told = (IF f[nd] = NULL THEN pp
                           ELSE [pp EXCEPT ![f[nd]] = pp[nd]]),
         NEW qq, qq = [told EXCEPT ![nd] = Poison]
  PROVE  HashHolds(g, qq, [c EXCEPT ![l] = Without(@, i)])
<1> DEFINE s == c[l]
           t == Without(s, i)
           d == [c EXCEPT ![l] = t]
           p == At(l, s, i - 1)
<1>1. /\ f \in HashFields /\ pp \in HashBacks /\ c \in [Lists -> Seq(Entries)]
      /\ s \in Seq(Entries) /\ Len(s) \in Nat /\ i \in 1 .. Len(s)
      /\ Lists \cap Entries = {} /\ NULL \notin Entries
      /\ nd = s[i] /\ nd \in Entries /\ i \in Nat /\ i - 1 \in 0 .. Len(s)
      /\ (i - 1) + 1 = i /\ i # i - 1
  BY LibraryAssumption DEF HashHolds
<1>2. /\ t \in Seq(Entries) /\ Len(t) = Len(s) - 1 /\ Len(t) \in Nat
      /\ \A j \in 0 .. Len(t) :
           At(l, t, j) = IF j < i THEN At(l, s, j) ELSE At(l, s, j + 1)
      /\ \A j \in 1 .. Len(t) : t[j] = IF j < i THEN s[j] ELSE s[j + 1]
  <2>1. t \in Seq(Entries) /\ Len(t) = Len(s) - 1
    BY <1>1, Removed
  <2>2. Len(s) - 1 \in Nat
    BY <1>1
  <2>3. \A j \in 1 .. Len(s) - 1 : t[j] = IF j < i THEN s[j] ELSE s[j + 1]
    BY DEF Without
  <2> QED
    BY <1>1, <2>1, <2>2, <2>3, AtWithout
<1>3. /\ \A j \in 0 .. Len(s) : f[At(l, s, j)] = IF j = Len(s) THEN NULL ELSE s[j + 1]
      /\ \A j \in 1 .. Len(s) : pp[s[j]] = At(l, s, j - 1)
  BY DEF HashHolds, Strung
<1>4. /\ pp[nd] = p
      /\ f[nd] = IF i = Len(s) THEN NULL ELSE s[i + 1]
  <2>1. At(l, s, i) = nd /\ i \in 0 .. Len(s)
    BY <1>1 DEF At
  <2> QED
    BY <1>1, <1>3, <2>1
<1>5. /\ \A j, k \in 1 .. Len(s) : s[j] = s[k] => j = k
      /\ \A j \in 1 .. Len(s) : s[j] \in Entries
      /\ \A m \in Lists \ {l} : \A j \in 1 .. Len(c[m]), k \in 1 .. Len(s) :
           c[m][j] # s[k]
  BY <1>1 DEF HashHolds, Once
<1>6. \A j \in 0 .. Len(s) : At(l, s, j) \in Lists \cup Entries
  BY <1>1, <1>5 DEF At
<1>7. \A j, k \in 0 .. Len(s) : At(l, s, j) = At(l, s, k) => j = k
  BY <1>1, <1>5 DEF At
<1>8. /\ f[nd] \in Entries \cup {NULL} /\ p \in Lists \cup Entries
      /\ f[nd] # nd /\ p # nd
  <2>1. i # Len(s) => i + 1 \in 1 .. Len(s) /\ i + 1 # i
    BY <1>1
  <2>2. At(l, s, i) = nd /\ i \in 0 .. Len(s)
    BY <1>1 DEF At
  <2> QED
    BY <1>1, <1>4, <1>5, <1>6, <1>7, <2>1, <2>2
<1> HIDE DEF p
<1>9. g \in HashFields /\ told \in HashBacks /\ qq \in HashBacks
  BY <1>1, <1>4, <1>8 DEF HashFields, HashBacks
<1>10. /\ g[p] = f[nd] /\ qq[nd] = Poison
       /\ \A x \in (Lists \cup Entries) \ {nd, p} : g[x] = f[x]
       /\ \A x \in Entries \ {nd, f[nd]} : qq[x] = pp[x]
       /\ f[nd] # NULL => qq[f[nd]] = p
  BY <1>1, <1>4, <1>8, <1>9 DEF HashFields, HashBacks
<1>11. Strung(g, qq, l, t)
  <2> HIDE DEF s, t
  <2>1. ASSUME NEW j \in 0 .. Len(t)
        PROVE  g[At(l, t, j)] = IF j = Len(t) THEN NULL ELSE t[j + 1]
    <3> DEFINE k == IF j < i THEN j ELSE j + 1
    <3>1. k \in 0 .. Len(s) /\ k # i /\ At(l, t, j) = At(l, s, k)
      BY <1>1, <1>2
    <3>2. CASE j = i - 1
      <4>1. k = i - 1 /\ (j = Len(t) <=> i = Len(s))
        BY <1>1, <1>2, <3>2
      <4>2. At(l, t, j) = p
        BY <3>1, <4>1 DEF p
      <4>3. j # Len(t) => t[j + 1] = s[i + 1]
        <5>1. j # Len(t) => j + 1 \in 1 .. Len(t) /\ j + 1 = i
          BY <1>1, <1>2, <3>2
        <5> QED
          BY <1>1, <1>2, <5>1
      <4> QED
        BY <1>4, <1>10, <4>1, <4>2, <4>3
    <3>3. CASE j # i - 1
      <4>1. k # i - 1 /\ i \in 0 .. Len(s) /\ (k = Len(s) <=> j = Len(t))
        BY <1>1, <1>2, <3>3
      <4>2. j # Len(t) => t[j + 1] = s[k + 1]
        <5>1. j # Len(t) => j + 1 \in 1 .. Len(t) /\ (j + 1 < i <=> j < i)
          BY <1>1, <1>2, <3>3
        <5> QED
          BY <1>2, <5>1
      <4> HIDE DEF k
      <4>3. At(l, s, k) # p /\ At(l, s, k) # nd
        <5>1. At(l, s, i) = nd
          BY <1>1 DEF At
        <5> QED
          BY <1>1, <1>7, <3>1, <4>1, <5>1 DEF p
      <4>4. g[At(l, s, k)] = f[At(l, s, k)]
        BY <1>6, <1>10, <3>1, <4>3
      <4> QED
        BY <1>3, <3>1, <4>1, <4>2, <4>4
    <3> QED
      BY <3>2, <3>3
  <2>2. ASSUME NEW j \in 1 .. Len(t) PROVE qq[t[j]] = At(l, t, j - 1)
    <3>1. CASE j < i
      <4>1. /\ t[j] = s[j] /\ j \in 1 .. Len(s) /\ j # i /\ j # i + 1
            /\ j - 1 \in 0 .. Len(t) /\ j - 1 < i /\ i \in 1 .. Len(s)
        BY <1>1, <1>2, <3>1
      <4>2. s[j] # nd /\ s[j] # f[nd]
        <5>1. i # Len(s) => i + 1 \in 1 .. Len(s)
          BY <1>1
        <5> QED
          BY <1>1, <1>4, <1>5, <4>1, <5>1
      <4>3. qq[s[j]] = At(l, s, j - 1)
        BY <1>3, <1>5, <1>10, <4>1, <4>2
      <4> QED
        BY <1>2, <4>1, <4>3
    <3>2. CASE j = i
      <4>1. t[j] = s[i + 1] /\ i # Len(s) /\ i + 1 \in 1 .. Len(s)
        BY <1>1, <1>2, <3>2
      <4>2. qq[t[j]] = p
        <5>1. f[nd] = s[i + 1] /\ s[i + 1] # NULL
          BY <1>1, <1>4, <1>5, <4>1
        <5> QED
          BY <1>10, <4>1, <5>1
      <4>3. At(l, t, i - 1) = At(l, s, i - 1)
        <5>1. i - 1 \in 0 .. Len(t) /\ i - 1 < i
          BY <1>1, <1>2, <4>1
        <5> QED
          BY <1>2, <5>1
      <4> QED
        BY <3>2, <4>2, <4>3 DEF p
    <3>3. CASE j > i
      <4>1. /\ t[j] = s[j + 1] /\ j + 1 \in 1 .. Len(s) /\ j + 1 # i
            /\ j + 1 # i + 1
            /\ j - 1 \in 0 .. Len(t) /\ ~(j - 1 < i) /\ (j + 1) - 1 = (j - 1) + 1
        <5>1. /\ j \in Nat /\ i \in Nat /\ j <= Len(s) - 1 /\ Len(s) \in Nat
              /\ Len(t) = Len(s) - 1 /\ j > i /\ i >= 1
          BY <1>1, <1>2, <3>3
        <5>2. t[j] = s[j + 1]
          BY <1>2, <5>1
        <5> QED
          BY <5>1, <5>2
      <4>2. s[j + 1] # nd /\ s[j + 1] # f[nd]
        <5>1. i # Len(s) => i + 1 \in 1 .. Len(s)
          BY <1>1
        <5> QED
          BY <1>1, <1>4, <1>5, <4>1, <5>1
      <4>3. qq[s[j + 1]] = At(l, s, (j + 1) - 1)
        BY <1>3, <1>5, <1>10, <4>1, <4>2
      <4>4. At(l, t, j - 1) = At(l, s, (j - 1) + 1)
        BY <1>2, <4>1
      <4> QED
        BY <4>1, <4>3, <4>4
    <3> QED
      <4>1. j \in Nat /\ i \in Nat
        BY <1>1, <1>2
      <4> QED
        BY <3>1, <3>2, <3>3, <4>1
  <2> QED
    BY <2>1, <2>2 DEF Strung
<1>12. ASSUME NEW m \in Lists \ {l} PROVE Strung(g, qq, m, c[m])
  <2> DEFINE r == c[m]
  <2>1. r \in Seq(Entries) /\ Strung(f, pp, m, r) /\ m \notin Entries
    BY <1>1 DEF HashHolds
  <2>2. p \in {l} \cup {s[j] : j \in 1 .. Len(s)}
    BY <1>1 DEF p, At
  <2>3. f[nd] \in {NULL} \cup {s[j] : j \in 1 .. Len(s)}
    <3>1. i # Len(s) => i + 1 \in 1 .. Len(s)
      BY <1>1
    <3> QED
      BY <1>4, <3>1
  <2>4. g[m] = f[m]
    <3>1. p = l \/ p \in Entries
      BY <1>5, <2>2
    <3>2. m # p /\ m # nd
      BY <1>1, <2>1, <3>1
    <3> QED
      BY <1>10, <3>2
  <2>5. ASSUME NEW j \in 1 .. Len(r)
        PROVE  g[r[j]] = f[r[j]] /\ qq[r[j]] = pp[r[j]]
    <3>1. r[j] \in Entries /\ r[j] # nd /\ r[j] # p /\ r[j] # f[nd]
      BY <1>1, <1>5, <2>1, <2>2, <2>3
    <3> QED
      BY <1>10, <3>1
  <2> HIDE DEF s, t, d, r
  <2>6. \A j \in 0 .. Len(r) : g[At(m, r, j)] = f[At(m, r, j)]
    BY <2>4, <2>5 DEF At
  <2>7. Strung(g, qq, m, r)
    BY <2>1, <2>5, <2>6 DEF Strung
  <2> QED
    BY <2>7 DEF r
<1>13. Once(d, Lists) /\ Off(d, Lists, nd)
  <2>1. c \in [Lists -> Seq(Entries)] /\ Once(c, Lists)
    BY <1>1 DEF HashHolds
  <2> QED
    BY <2>1, CutOnce
<1> HIDE DEF t
<1>14. /\ d \in [Lists -> Seq(Entries)] /\ d[l] = t
       /\ \A m \in Lists \ {l} : d[m] = c[m]
  BY <1>1, <1>2
<1>15. \A m \in Lists : Strung(g, qq, m, d[m])
  BY <1>11, <1>12, <1>14
<1>16. \A e \in Entries : Off(d, Lists, e) => qq[e] \in {NULL, Poison}
  <2> SUFFICES ASSUME NEW e \in Entries, Off(d, Lists, e), e # nd
               PROVE  qq[e] \in {NULL, Poison}
    BY <1>10
  <2>1. Off(c, Lists, e)
    BY <1>1, StaysOn DEF t, HashHolds
  <2>2. e # f[nd]
    <3>1. i # Len(s) => i + 1 \in 1 .. Len(s)
      BY <1>1
    <3> QED
      BY <1>1, <1>4, <2>1, <3>1 DEF Off
  <2> QED
    BY <1>10, <2>1, <2>2 DEF HashHolds
<1> HIDE DEF d
<1>17. HashHolds(g, qq, d)
  BY <1>9, <1>13, <1>14, <1>15, <1>16 DEF HashHolds
<1> QED
  BY <1>17 DEF d, t

\* What a loop that is going on knows.
LEMMA HashLoopIs ==
  ASSUME NEW c, NEW lp, HashLoopHolds(c, lp), lp.on
  PROVE  lp \in [on : {TRUE}, safe : BOOLEAN, node : Entries, next : Entries \cup {NULL}]
<1>1. lp # Hash!NoLoop
  BY DEF Hash!NoLoop
<1> QED
  BY <1>1 DEF HashLoopHolds

\* The strings of nodes that a memory holds, as walks follow them.
LEMMA HashWalks ==
  ASSUME NEW f, NEW pp, NEW c, HashHolds(f, pp, c), NEW l \in Lists
  PROVE  /\ c[l] \in Seq(Entries) /\ Len(c[l]) \in Nat /\ NULL \notin Entries
         /\ f[l] = At(NULL, c[l], 1)
         /\ \A i \in 1 .. Len(c[l]) : f[c[l][i]] = At(NULL, c[l], i + 1)
         /\ \A i, j \in 1 .. Len(c[l]) : c[l][i] = c[l][j] => i = j
         /\ Len(c[l]) <= Hash!Bound /\ Hash!Bound \in Nat
<1> DEFINE s == c[l]
<1>1. /\ s \in Seq(Entries) /\ Len(s) \in Nat /\ Strung(f, pp, l, s)
      /\ NULL \notin Entries /\ \A i, j \in 1 .. Len(s) : s[i] = s[j] => i = j
  BY LibraryAssumption DEF HashHolds, Once
<1>2. Len(s) <= Hash!Bound /\ Hash!Bound \in Nat
  <2>1. /\ c \in [Lists -> Seq(Entries)]
        /\ \A m, n \in Lists : \A i \in 1 .. Len(c[m]), k \in 1 .. Len(c[n]) :
             c[m][i] = c[n][k] => m = n /\ i = k
    BY DEF HashHolds, Once
  <2>2. Len(s) <= Linked!Bound /\ Linked!Bound \in Nat
    BY <2>1, ListIsShort
  <2>3. Hash!Bound = Linked!Bound
    BY DEF Hash!Bound, Linked!Bound, Hash!Cardinality, Linked!Cardinality
  <2> QED
    BY <2>2, <2>3
<1> HIDE DEF s
<1>3. f[l] = At(NULL, s, 1)
  <2>1. 0 \in 0 .. Len(s) /\ At(l, s, 0) = l /\ 0 + 1 = 1
    BY <1>1 DEF At
  <2>2. f[l] = IF 0 = Len(s) THEN NULL ELSE s[1]
    BY <1>1, <2>1 DEF Strung
  <2> QED
    BY <1>1, <2>2 DEF At
<1>4. ASSUME NEW i \in 1 .. Len(s) PROVE f[s[i]] = At(NULL, s, i + 1)
  <2>1. i \in 0 .. Len(s) /\ At(l, s, i) = s[i]
    BY <1>1 DEF At
  <2>2. f[s[i]] = IF i = Len(s) THEN NULL ELSE s[i + 1]
    BY <1>1, <2>1 DEF Strung
  <2>3. i # Len(s) <=> i + 1 \in 1 .. Len(s)
    BY <1>1
  <2> QED
    BY <2>2, <2>3 DEF At
<1> QED
  BY <1>1, <1>2, <1>3, <1>4 DEF s

\* The lists are walked as those of the module of list operations are.
LEMMA HashFrom == \A f, e, l, b : Hash!From(f, e, l, b) = Ops!From(f, e, l, b)
BY DEF Hash!From, Ops!From, Hash!Last, Ops!Last

\* What is on each list is what a walk from its first meets.
LEMMA HashContent ==
  ASSUME NEW f, NEW pp, NEW c, HashHolds(f, pp, c), NEW l \in Lists
  PROVE  Hash!From(f, f[l], NULL, Hash!Bound) = c[l]
<1> DEFINE s == c[l]
           b == Hash!Bound
           e == f[l]
<1>1. /\ s \in Seq(Entries) /\ NULL \notin Entries /\ e = At(NULL, s, 1)
      /\ \A i \in 1 .. Len(s) : f[s[i]] = At(NULL, s, i + 1)
      /\ Len(s) <= b /\ b \in Nat
  BY HashWalks
<1> HIDE DEF s, b, e
<1> DEFINE e1 == At(NULL, s, 1)
<1>2. e1 = At(NULL, s, 1) /\ e = e1
  BY <1>1
<1> HIDE DEF e1
<1>3. Ops!From(f, e1, NULL, b) = s
  BY <1>1, <1>2, WalkMeets
<1>4. Hash!From(f, e, NULL, b) = s
  BY <1>2, <1>3, HashFrom
<1> QED
  BY <1>4 DEF s, b, e

\* A loop has yet to meet what is behind its place.
LEMMA HashRestIs ==
  ASSUME NEW f, NEW pp, NEW c, HashHolds(f, pp, c), NEW l \in Lists,
         NEW lp, lp.on, NEW j, Placed(c[l], NULL, lp.node, lp.next, lp.safe, j)
  PROVE  /\ HashRestIn(f, lp) = Behind(c[l], j)
         /\ (IF lp.safe THEN lp.next ELSE f[lp.node]) = At(NULL, c[l], j + 1)
<1> DEFINE s == c[l]
           e == IF lp.safe THEN lp.next ELSE f[lp.node]
           b == Hash!Bound
<1>1. /\ s \in Seq(Entries) /\ Len(s) \in Nat /\ NULL \notin Entries
      /\ \A i \in 1 .. Len(s) : f[s[i]] = At(NULL, s, i + 1)
      /\ Len(s) <= b /\ b \in Nat
  BY HashWalks
<1>2. j \in 0 .. Len(s) /\ e = At(NULL, s, j + 1)
  BY <1>1 DEF Placed
<1>3. HashRestIn(f, lp) = Ops!From(f, e, NULL, b)
  BY HashFrom DEF HashRestIn
<1> HIDE DEF s, e, b
<1>4. Ops!From(f, At(NULL, s, j + 1), NULL, b) = Behind(s, j)
  <2>1. Chained(Entries, f, NULL, b, s)
    BY <1>1 DEF Chained
  <2> QED
    BY <1>2, <2>1, WalkIsBehind
<1> QED
  BY <1>2, <1>3, <1>4 DEF s, e

\* A loop that is at the i-th node of a list, or begins at its first.
LEMMA HashGoesOn ==
  ASSUME NEW f, NEW pp, NEW c, HashHolds(f, pp, c), NEW l \in Lists,
         NEW i \in 1 .. Len(c[l]), NEW safe \in BOOLEAN,
         NEW lp, lp = [on |-> TRUE, safe |-> safe, node |-> c[l][i],
                       next |-> f[c[l][i]]]
  PROVE  HashLoopHolds(c, lp) /\ HashRestIn(f, lp) = Behind(c[l], i)
<1> DEFINE s == c[l]
           n == f[c[l][i]]
<1>1. /\ s \in Seq(Entries) /\ n = At(NULL, s, i + 1) /\ Len(s) \in Nat
      /\ \A j, k \in 1 .. Len(s) : s[j] = s[k] => j = k
  BY HashWalks
<1>2. s[i] \in Entries /\ n \in Entries \cup {NULL}
  BY <1>1 DEF At
<1>3. lp = [on |-> TRUE, safe |-> safe, node |-> s[i], next |-> n]
  OBVIOUS
<1>4. lp.on = TRUE /\ lp.safe = safe /\ lp.node = s[i] /\ lp.next = n
  BY <1>3
<1> HIDE DEF s, n
<1>5. Placed(s, NULL, s[i], n, safe, i)
  BY <1>1, PlacedAt DEF s
<1>6. Placed(c[l], NULL, lp.node, lp.next, lp.safe, i)
  BY <1>4, <1>5 DEF s
<1>7. HashLoopHolds(c, lp)
  BY <1>2, <1>3, <1>4, <1>6 DEF HashLoopHolds
<1>8. HashRestIn(f, lp) = Behind(c[l], i)
  BY <1>4, <1>6, HashRestIs
<1> QED
  BY <1>7, <1>8

\* The body of a safe loop may delete the node it is at, whichever list it is on.
LEMMA BodyDeletes ==
  ASSUME NEW f, NEW pp, NEW c, HashHolds(f, pp, c), NEW l \in Lists,
         NEW i \in 1 .. Len(c[l]),
         NEW d, \A m \in Lists : d[m] = IF m = l THEN Without(c[l], i) ELSE c[m],
         NEW g, NEW qq, HashHolds(g, qq, d),
         NEW lp, HashLoopHolds(c, lp), lp.on => lp.safe /\ lp.node = c[l][i]
  PROVE  HashLoopHolds(d, lp) /\ HashRestIn(g, lp) = HashRestIn(f, lp)
<1>1. CASE ~lp.on
  BY <1>1 DEF HashLoopHolds, HashRestIn
<1>2. CASE lp.on
  <2>1. /\ lp \in [on : {TRUE}, safe : BOOLEAN, node : Entries,
                   next : Entries \cup {NULL}]
    BY <1>2, HashLoopIs
  <2>2. lp.safe = TRUE /\ lp.node = c[l][i]
    BY <1>2, <2>1
  <2>2a. PICK m \in Lists :
           \E j : Placed(c[m], NULL, lp.node, lp.next, lp.safe, j)
    BY <1>2 DEF HashLoopHolds
  <2>3. PICK j : Placed(c[m], NULL, lp.node, lp.next, lp.safe, j)
    BY <2>2a
  <2>4. \E j1 : /\ Placed(d[m], NULL, lp.node, lp.next, lp.safe, j1)
                /\ Behind(d[m], j1) = Behind(c[m], j)
    <3>1. c \in [Lists -> Seq(Entries)]
      BY DEF HashHolds
    <3>2. CASE m # l
      <4>1. d[m] = c[m]
        BY <3>1, <3>2
      <4> QED
        BY <2>3, <4>1
    <3>3. CASE m = l
      <4> DEFINE s == c[l]
                 n == lp.next
      <4>1. s \in Seq(Entries) /\ d[l] = Without(s, i) /\ i \in 1 .. Len(s)
        BY <3>1
      <4>2. Placed(s, NULL, s[i], n, TRUE, j)
        BY <2>2, <2>3, <3>3
      <4> HIDE DEF s, n
      <4>3. Placed(Without(s, i), NULL, s[i], n, TRUE, j - 1)
        BY <4>1, <4>2, CutPlaced
      <4>4. Behind(Without(s, i), j - 1) = Behind(s, j)
        <5>1. j \in i .. Len(s)
          BY <4>1, <4>2 DEF Placed
        <5> QED
          BY <4>1, <5>1, CutBehind
      <4> QED
        BY <2>2, <3>3, <4>1, <4>3, <4>4 DEF s, n
    <3> QED
      BY <3>2, <3>3
  <2>5. PICK j1 : /\ Placed(d[m], NULL, lp.node, lp.next, lp.safe, j1)
                  /\ Behind(d[m], j1) = Behind(c[m], j)
    BY <2>4
  <2>6. HashLoopHolds(d, lp)
    BY <1>2, <2>1, <2>5 DEF HashLoopHolds
  <2>7. HashRestIn(f, lp) = Behind(c[m], j)
    BY <1>2, <2>3, HashRestIs
  <2>8. HashRestIn(g, lp) = Behind(d[m], j1)
    BY <1>2, <2>5, HashRestIs
  <2> QED
    BY <2>5, <2>6, <2>7, <2>8
<1> QED
  BY <1>1, <1>2

\* Every operation on hash lists and every step of a loop keeps what the memory
\* and the loop hold of the lists, and changes these as SequenceLists says.
LEMMA HashTurns ==
  ASSUME [Hash!Next]_(Hash!hash_vars),
         NEW c, HashHolds(field, pprev, c), HashLoopHolds(c, hash_loop)
  PROVE  \E d : /\ HashHolds(field', pprev', d) /\ HashLoopHolds(d, hash_loop')
                /\ SequenceTurn(c, NULL, HashRestIn(field, hash_loop),
                                d, NULL, HashRestIn(field', hash_loop'))
<1> DEFINE To(d) == HashHolds(field', pprev', d) /\ HashLoopHolds(d, hash_loop')
           Turn(d) == SequenceTurn(c, NULL, HashRestIn(field, hash_loop),
                                   d, NULL, HashRestIn(field', hash_loop'))
           Goal == \E d : To(d) /\ Turn(d)
<1>1. SUFFICES Goal
  OBVIOUS
<1>2. ASSUME NEW d, To(d), d \in Linked!Promise!Results(c) \cup {c},
             HashRestIn(field', hash_loop') = HashRestIn(field, hash_loop)
      PROVE  Goal
  BY <1>2 DEF SequenceTurn
<1>8. c \in [Lists -> Seq(Entries)] /\ Once(c, Lists)
  BY DEF HashHolds
<1>3. ASSUME NEW e \in Entries, NEW l \in Lists, Hash!AddFirst(e, l)
      PROVE  Goal
  <2>1. /\ pprev[e] \in {NULL, Poison} /\ ~hash_loop.on
        /\ hash_loop' = hash_loop
        /\ field' = [field EXCEPT ![e] = field[l], ![l] = e]
        /\ pprev' = [(IF field[l] = NULL THEN pprev
                      ELSE [pprev EXCEPT ![field[l]] = e]) EXCEPT ![e] = l]
    BY <1>3 DEF Hash!AddFirst, Hash!IsOff, Hash!NewFirst
  <2> DEFINE d == [c EXCEPT ![l] = InsertAt(@, 0, e)]
  <2>2. HashHolds(field', pprev', d)
    BY <2>1, AddFirstKeeps
  <2>3. d = Linked!Promise!PutHead(c, e, l)
    <3>1. Off(c, Lists, e)
      BY <2>1, IsOffIs
    <3>2. Linked!Promise!TakeOff(c, e) = c
      BY <1>8, <3>1, TakeOffIs
    <3>3. <<e>> \o c[l] = InsertAt(c[l], 0, e)
      <4> DEFINE s == c[l]
      <4>1. s \in Seq(Entries)
        BY <1>8
      <4> HIDE DEF s
      <4>2. <<e>> \o s = InsertAt(s, 0, e)
        BY <4>1, SequencesAre
      <4> QED
        BY <4>2 DEF s
    <3> QED
      BY <3>2, <3>3 DEF Linked!Promise!PutHead
  <2> HIDE DEF d
  <2>4. HashLoopHolds(d, hash_loop')
    BY <2>1 DEF HashLoopHolds
  <2>5. HashRestIn(field', hash_loop') = HashRestIn(field, hash_loop)
    BY <2>1 DEF HashRestIn
  <2>6. d \in Linked!Promise!Results(c)
    BY <2>3, ResultsAre
  <2> QED
    BY <1>2, <2>2, <2>4, <2>5, <2>6
<1>4. ASSUME NEW e \in Entries, Hash!Delete(e) PROVE Goal
  <2>1. /\ pprev[e] \notin {NULL, Poison}
        /\ hash_loop.on => hash_loop.safe /\ hash_loop.node = e
        /\ hash_loop' = hash_loop
        /\ field' = [field EXCEPT ![pprev[e]] = field[e], ![e] = Poison]
        /\ pprev' = [(IF field[e] = NULL THEN pprev
                      ELSE [pprev EXCEPT ![field[e]] = pprev[e]]) EXCEPT ![e] = Poison]
    BY <1>4 DEF Hash!Delete, Hash!IsOff
  <2>2. ~Off(c, Lists, e)
    BY <2>1, IsOffIs
  <2>3. PICK l \in Lists : \E i \in 1 .. Len(c[l]) : c[l][i] = e
    BY <2>2 DEF Off
  <2>4. PICK i \in 1 .. Len(c[l]) : c[l][i] = e
    BY <2>3
  <2> DEFINE d == [c EXCEPT ![l] = Without(@, i)]
  <2>5. HashHolds(field', pprev', d)
    BY <2>1, <2>4, DeleteKeeps
  <2>6. d = Linked!Promise!TakeOff(c, e)
    BY <1>8, <2>4, TakeOffIs
  <2>7. d \in Linked!Promise!Results(c)
    <3> HIDE DEF d
    <3> QED
      BY <2>6, ResultsAre
  <2>8. /\ HashLoopHolds(d, hash_loop)
        /\ HashRestIn(field', hash_loop) = HashRestIn(field, hash_loop)
    <3> DEFINE g == field'
               qq == pprev'
    <3>1. HashHolds(g, qq, d) /\ HashHolds(field, pprev, c)
      BY <2>5
    <3>2. \A m \in Lists : d[m] = IF m = l THEN Without(c[l], i) ELSE c[m]
      BY <1>8
    <3>3. /\ HashLoopHolds(c, hash_loop)
          /\ hash_loop.on => hash_loop.safe /\ hash_loop.node = c[l][i]
      BY <2>1, <2>4
    <3> HIDE DEF g, qq, d
    <3>4. HashLoopHolds(d, hash_loop)
      BY <3>1, <3>2, <3>3, BodyDeletes
    <3>5. HashRestIn(g, hash_loop) = HashRestIn(field, hash_loop)
      BY <3>1, <3>2, <3>3, BodyDeletes
    <3> QED
      BY <3>4, <3>5 DEF g
  <2> HIDE DEF d
  <2> QED
    BY <1>2, <2>1, <2>5, <2>7, <2>8
<1>5. ASSUME NEW l \in Lists, NEW safe \in BOOLEAN, Hash!LoopBegins(l, safe)
      PROVE  Goal
  <2>1. /\ field[l] # NULL /\ field' = field /\ pprev' = pprev /\ ~hash_loop.on
        /\ hash_loop' = [on |-> TRUE, safe |-> safe, node |-> field[l],
                         next |-> field[field[l]]]
    BY <1>5 DEF Hash!LoopBegins
  <2>2. 1 \in 1 .. Len(c[l]) /\ field[l] = c[l][1] /\ c[l] \in Seq(Entries)
    <3>1. c[l] \in Seq(Entries) /\ Len(c[l]) \in Nat /\ field[l] = At(NULL, c[l], 1)
      BY HashWalks
    <3> QED
      BY <2>1, <3>1 DEF At
  <2>3. HashLoopHolds(c, hash_loop') /\ HashRestIn(field, hash_loop') = Behind(c[l], 1)
    <3> DEFINE lp == hash_loop'
    <3>1. lp = [on |-> TRUE, safe |-> safe, node |-> c[l][1],
                next |-> field[c[l][1]]]
      BY <2>1, <2>2
    <3> HIDE DEF lp
    <3>2. HashLoopHolds(c, lp) /\ HashRestIn(field, lp) = Behind(c[l], 1)
      BY <2>2, <3>1, HashGoesOn
    <3> QED
      BY <3>2 DEF lp
  <2>4. c[l] # <<>> /\ Tail(c[l]) = Behind(c[l], 1)
    <3>1. c[l] # <<>> /\ c[l] \in Seq(Entries) /\ 0 \in 0 .. Len(c[l])
      BY <2>2
    <3> QED
      BY <3>1, BehindIs
  <2>5. HashRestIn(field, hash_loop) = <<>>
    BY <2>1 DEF HashRestIn
  <2>6. To(c)
    BY <2>1, <2>3
  <2>7. Turn(c)
    BY <2>1, <2>3, <2>4, <2>5 DEF SequenceTurn
  <2> QED
    BY <2>6, <2>7
<1>6. CASE Hash!LoopGoesOn
  <2>1. /\ hash_loop.on /\ field' = field /\ pprev' = pprev
        /\ hash_loop' = IF Hash!Following = NULL THEN Hash!NoLoop
                        ELSE [hash_loop EXCEPT !.node = Hash!Following,
                                               !.next = field[Hash!Following]]
    BY <1>6 DEF Hash!LoopGoesOn
  <2>2. hash_loop \in [on : {TRUE}, safe : BOOLEAN, node : Entries,
                       next : Entries \cup {NULL}]
    BY <2>1, HashLoopIs
  <2>2a. PICK l \in Lists : \E j :
           Placed(c[l], NULL, hash_loop.node, hash_loop.next, hash_loop.safe, j)
    BY <2>1 DEF HashLoopHolds
  <2>3. PICK j : Placed(c[l], NULL, hash_loop.node, hash_loop.next, hash_loop.safe, j)
    BY <2>2a
  <2> DEFINE s == c[l]
  <2>4. HashRestIn(field, hash_loop) = Behind(s, j) /\ Hash!Following = At(NULL, s, j + 1)
    BY <2>1, <2>3, HashRestIs DEF Hash!Following
  <2>5. /\ s \in Seq(Entries) /\ Len(s) \in Nat /\ NULL \notin Entries
        /\ j \in 0 .. Len(s)
    BY <2>3, HashWalks DEF Placed
  <2>6. CASE j = Len(s)
    <3>1. Hash!Following = NULL
      BY <2>4, <2>5, <2>6 DEF At
    <3>2. hash_loop' = Hash!NoLoop
      BY <2>1, <3>1
    <3>3. HashLoopHolds(c, hash_loop') /\ HashRestIn(field', hash_loop') = <<>>
      BY <3>2 DEF HashLoopHolds, HashRestIn, Hash!NoLoop
    <3>4. Behind(s, j) = <<>>
      BY <2>5, <2>6, BehindIs
    <3>5. To(c)
      BY <2>1, <3>3
    <3>6. Turn(c)
      BY <2>4, <3>3, <3>4 DEF SequenceTurn
    <3> QED
      BY <3>5, <3>6
  <2>7. CASE j # Len(s)
    <3>1. j + 1 \in 1 .. Len(s) /\ j < Len(s)
      BY <2>5, <2>7
    <3>2. Hash!Following = s[j + 1] /\ s[j + 1] \in Entries
      BY <2>4, <2>5, <3>1 DEF At
    <3>3. hash_loop' = [on |-> TRUE, safe |-> hash_loop.safe,
                        node |-> s[j + 1], next |-> field[s[j + 1]]]
      BY <2>1, <2>2, <2>5, <3>2
    <3>4. HashLoopHolds(c, hash_loop') /\ HashRestIn(field, hash_loop') = Behind(s, j + 1)
      <4> DEFINE lp == hash_loop'
                 i == j + 1
                 sf == hash_loop.safe
      <4>1. lp = [on |-> TRUE, safe |-> sf, node |-> c[l][i], next |-> field[c[l][i]]]
        BY <3>3
      <4>2. i \in 1 .. Len(c[l]) /\ sf \in BOOLEAN
        BY <2>2, <3>1
      <4>3. s = c[l]
        OBVIOUS
      <4> HIDE DEF lp, i, sf, s
      <4>4. HashLoopHolds(c, lp) /\ HashRestIn(field, lp) = Behind(c[l], i)
        BY <4>1, <4>2, HashGoesOn
      <4> QED
        BY <4>3, <4>4 DEF lp, i
    <3>5. Behind(s, j) # <<>> /\ Tail(Behind(s, j)) = Behind(s, j + 1)
      <4>1. s \in Seq(Entries) /\ j \in 0 .. Len(s) /\ j # Len(s) /\ j < Len(s)
        BY <2>5, <2>7, <3>1
      <4> HIDE DEF s
      <4> QED
        BY <4>1, BehindIs
    <3>6. To(c)
      BY <2>1, <3>4
    <3>7. Turn(c)
      BY <2>1, <2>4, <3>4, <3>5 DEF SequenceTurn
    <3> QED
      BY <3>6, <3>7
  <2> QED
    BY <2>6, <2>7
<1>7. CASE UNCHANGED Hash!hash_vars
  <2>1. field' = field /\ pprev' = pprev /\ hash_loop' = hash_loop
    BY <1>7 DEF Hash!hash_vars
  <2>2. To(c) /\ Turn(c)
    BY <2>1 DEF SequenceTurn
  <2> QED
    BY <2>2
<1> QED
  BY <1>3, <1>4, <1>5, <1>6, <1>7 DEF Hash!Next

\* The invariant is kept.
LEMMA HashStep == HashInv /\ [Hash!Next]_(Hash!hash_vars) => HashInv'
<1> SUFFICES ASSUME HashInv, [Hash!Next]_(Hash!hash_vars) PROVE HashInv'
  OBVIOUS
<1>1. PICK c : HashHolds(field, pprev, c) /\ HashLoopHolds(c, hash_loop)
  BY DEF HashInv
<1>2. PICK d : HashHolds(field', pprev', d) /\ HashLoopHolds(d, hash_loop')
  BY <1>1, HashTurns
<1> QED
  BY <1>2 DEF HashInv

\* Type correctness of fields and of loops.
LEMMA HashInvTypes == HashInv => Hash!TypeOK
<1> SUFFICES ASSUME HashInv PROVE Hash!TypeOK
  OBVIOUS
<1>1. PICK c : HashHolds(field, pprev, c) /\ HashLoopHolds(c, hash_loop)
  BY DEF HashInv
<1>2. hash_loop.on
        => /\ hash_loop.node \in Entries /\ hash_loop.safe \in BOOLEAN
                      /\ hash_loop.next \in Entries \cup {NULL}
  <2> SUFFICES ASSUME hash_loop.on
               PROVE  /\ hash_loop.node \in Entries /\ hash_loop.safe \in BOOLEAN
                      /\ hash_loop.next \in Entries \cup {NULL}
    OBVIOUS
  <2>1. HashLoopHolds(c, hash_loop)
    BY <1>1
  <2>2. hash_loop \in [on : {TRUE}, safe : BOOLEAN, node : Entries,
                       next : Entries \cup {NULL}]
    BY <2>1, HashLoopIs
  <2> QED
    BY <2>2
<1> QED
  BY <1>1, <1>2 DEF Hash!TypeOK, HashHolds, HashFields, HashBacks

-----------------------------------------------------------------------------
(* The lists are sequences.                                                *)

\* A turn of sequences is a step of SequenceLists, whose variables the sequences
\* are.
LEMMA LinkedContent ==
  ASSUME NEW g, NEW c, LinkedHolds(g, c)
  PROVE  [l \in Lists |-> Linked!OnList(g, l, Linked!Bound)] = c
<1>1. /\ c \in [Lists -> Seq(Entries)]
      /\ \A l, m \in Lists : \A i \in 1 .. Len(c[l]), j \in 1 .. Len(c[m]) :
           c[l][i] = c[m][j] => l = m /\ i = j
  BY DEF LinkedHolds, Kept, Rings
<1>2. ASSUME NEW l \in Lists
      PROVE  Linked!OnList(g, l, Linked!Bound) = c[l]
  <2> DEFINE s == c[l]
             b == Linked!Bound
             f == g.next
             e == At(l, s, 1)
  <2>1. /\ s \in Seq(Entries) /\ l \notin Entries /\ NULL \notin Entries
        /\ f[l] = e /\ e = At(l, s, 1)
        /\ \A i \in 1 .. Len(s) : f[s[i]] = At(l, s, i + 1)
    BY LinkedRings
  <2>2. Len(s) <= b /\ b \in Nat
    BY <1>1, ListIsShort
  <2>3. Linked!OnList(g, l, b) = Ops!From(f, f[l], l, b)
    BY LinkedFrom DEF Ops!OnList
  <2> HIDE DEF s, b, f, e
  <2>4. Ops!From(f, e, l, b) = s
    BY <2>1, <2>2, WalkMeets
  <2> QED
    BY <2>1, <2>3, <2>4 DEF s, b
<1> QED
  BY <1>1, <1>2

LEMMA LinkedRefines ==
  LinkedInv /\ [Linked!Next]_(Linked!list_vars)
    => [Linked!Promise!Next]_(Linked!Promise!vars)
<1> SUFFICES ASSUME LinkedInv, [Linked!Next]_(Linked!list_vars)
             PROVE  [Linked!Promise!Next]_(Linked!Promise!vars)
  OBVIOUS
<1> DEFINE con == [l \in Lists |-> Linked!Content(l)]
<1>1. PICK c :
        LinkedHolds(h, c) /\ LinkageHolds(h, c, linkage) /\ LoopHolds(c, loop)
  BY DEF LinkedInv
<1>2. PICK d :
        /\ LinkedHolds(h', d)
        /\ SequenceTurn(c, ret, RestIn(h, loop), d, ret', RestIn(h', loop'))
  BY <1>1, LinkedTurns DEF LinkedInv
<1>3. con = c
  BY <1>1, LinkedContent DEF Linked!Content
<1>4. con' = d
  <2> DEFINE g == h'
  <2>1. LinkedHolds(g, d)
    BY <1>2
  <2>2. con' = [l \in Lists |-> Linked!OnList(g, l, Linked!Bound)]
    BY DEF Linked!Content
  <2> HIDE DEF g, con
  <2> QED
    BY <2>1, <2>2, LinkedContent
<1>5. Linked!Rest = RestIn(h, loop) /\ Linked!Rest' = RestIn(h', loop')
  BY DEF Linked!Rest, Linked!Following, RestIn
<1> DEFINE q == Linked!Rest
<1>6. SequenceTurn(con, ret, q, con', ret', q')
  BY <1>2, <1>3, <1>4, <1>5
<1>7. CASE con' = con /\ ret' = ret /\ q' = q
  BY <1>7 DEF Linked!Promise!vars
<1>8. CASE con' \in Linked!Promise!Results(con) /\ ret' = ret /\ q' = q
  BY <1>8 DEF Linked!Promise!Next, Linked!Promise!Change
<1>9. CASE \E l \in Lists : /\ con[l] # <<>> /\ ret' = Head(con[l]) /\ q' = q
                            /\ con' = [con EXCEPT ![l] = Tail(@)]
  <2> HIDE DEF con, q
  <2>1. PICK l \in Lists : /\ con[l] # <<>> /\ ret' = Head(con[l]) /\ q' = q
                           /\ con' = [con EXCEPT ![l] = Tail(@)]
    BY <1>9
  <2>2. Linked!Promise!Pop(l)
    BY <2>1 DEF con, q, Linked!Promise!Pop
  <2> QED
    BY <2>2 DEF Linked!Promise!Next
<1>10. CASE \E l \in Lists : con[l] = <<>> /\ ret' = NULL /\ q' = q /\ con' = con
  <2> HIDE DEF con, q
  <2>1. PICK l \in Lists : con[l] = <<>> /\ ret' = NULL /\ q' = q /\ con' = con
    BY <1>10
  <2>2. Linked!Promise!PopNone(l)
    BY <2>1 DEF con, q, Linked!Promise!PopNone
  <2> QED
    BY <2>2 DEF Linked!Promise!Next
<1>11. CASE \E l \in Lists : /\ q = <<>> /\ con[l] # <<>> /\ q' = Tail(con[l])
                             /\ con' = con /\ ret' = ret
  <2> HIDE DEF con, q
  <2>1. PICK l \in Lists : /\ q = <<>> /\ con[l] # <<>> /\ q' = Tail(con[l])
                           /\ con' = con /\ ret' = ret
    BY <1>11
  <2>2. Linked!Promise!LoopBegins(l)
    BY <2>1 DEF con, q, Linked!Promise!LoopBegins
  <2> QED
    BY <2>2 DEF Linked!Promise!Next
<1>12. CASE q # <<>> /\ q' = Tail(q) /\ con' = con /\ ret' = ret
  BY <1>12 DEF Linked!Promise!Next, Linked!Promise!LoopGoesOn
<1> HIDE DEF con, q
<1> QED
  BY <1>6, <1>7, <1>8, <1>9, <1>10, <1>11, <1>12 DEF SequenceTurn

\* What a call can make of hash lists is what it can make of linked ones.
LEMMA SameResults ==
  \A c : Hash!Promise!Results(c) = Linked!Promise!Results(c)
BY DEF Hash!Promise!Results, Linked!Promise!Results,
       Hash!Promise!PutHead, Linked!Promise!PutHead,
       Hash!Promise!PutTail, Linked!Promise!PutTail,
       Hash!Promise!PrependAll, Linked!Promise!PrependAll,
       Hash!Promise!AppendAll, Linked!Promise!AppendAll,
       Hash!Promise!TakeOff, Linked!Promise!TakeOff,
       Hash!Promise!Drop, Linked!Promise!Drop

\* So it is of the sequences that hash lists hold, none of which is popped.
LEMMA HashRefines ==
  HashInv /\ [Hash!Next]_(Hash!hash_vars) => [Hash!Promise!Next]_(Hash!Promise!vars)
<1> SUFFICES ASSUME HashInv, [Hash!Next]_(Hash!hash_vars)
             PROVE  [Hash!Promise!Next]_(Hash!Promise!vars)
  OBVIOUS
<1> DEFINE con == [l \in Lists |-> Hash!From(field, field[l], NULL, Hash!Bound)]
           q == IF ~hash_loop.on THEN <<>>
                ELSE Hash!From(field, Hash!Following, NULL, Hash!Bound)
<1>1. PICK c : HashHolds(field, pprev, c) /\ HashLoopHolds(c, hash_loop)
  BY DEF HashInv
<1>2. PICK d : /\ HashHolds(field', pprev', d)
               /\ SequenceTurn(c, NULL, HashRestIn(field, hash_loop),
                               d, NULL, HashRestIn(field', hash_loop'))
  BY <1>1, HashTurns
<1>3. ASSUME NEW f, NEW pp, NEW b, HashHolds(f, pp, b)
      PROVE  [l \in Lists |-> Hash!From(f, f[l], NULL, Hash!Bound)] = b
  <2>1. b \in [Lists -> Seq(Entries)]
    BY <1>3 DEF HashHolds
  <2>2. \A l \in Lists : Hash!From(f, f[l], NULL, Hash!Bound) = b[l]
    BY <1>3, HashContent
  <2> QED
    BY <2>1, <2>2
<1>4. con = c
  BY <1>1, <1>3
<1>5. con' = d
  <2> DEFINE f == field'
             pp == pprev'
  <2>1. HashHolds(f, pp, d)
    BY <1>2
  <2>2. con' = [l \in Lists |-> Hash!From(f, f[l], NULL, Hash!Bound)]
    OBVIOUS
  <2> HIDE DEF f, pp, con
  <2> QED
    BY <1>3, <2>1, <2>2
<1>6. q = HashRestIn(field, hash_loop) /\ q' = HashRestIn(field', hash_loop')
  BY DEF Hash!Following, HashRestIn
<1>7. SequenceTurn(con, NULL, q, con', NULL, q')
  <2> HIDE DEF con, q
  <2> QED
    BY <1>2, <1>4, <1>5, <1>6
<1> HIDE DEF con, q
<1>8. CASE con' = con /\ q' = q
  BY <1>8 DEF con, q, Hash!Promise!vars
<1>9. CASE con' \in Linked!Promise!Results(con) /\ q' = q
  <2>1. con' \in Hash!Promise!Results(con)
    BY <1>9, SameResults
  <2>2. Hash!Promise!Change
    BY <1>9, <2>1 DEF con, q, Hash!Promise!Change
  <2> QED
    BY <2>2 DEF Hash!Promise!Next
<1>10. CASE \E l \in Lists : /\ con[l] # <<>> /\ NULL = Head(con[l]) /\ q' = q
                             /\ con' = [con EXCEPT ![l] = Tail(@)]
  <2>1. PICK l \in Lists : /\ con[l] # <<>> /\ NULL = Head(con[l]) /\ q' = q
                           /\ con' = [con EXCEPT ![l] = Tail(@)]
    BY <1>10
  <2>2. Hash!Promise!Pop(l)
    BY <2>1 DEF con, q, Hash!Promise!Pop
  <2> QED
    BY <2>2 DEF Hash!Promise!Next
<1>11. CASE \E l \in Lists : con[l] = <<>> /\ q' = q /\ con' = con
  BY <1>11 DEF con, q, Hash!Promise!vars
<1>12. CASE \E l \in Lists : /\ q = <<>> /\ con[l] # <<>> /\ q' = Tail(con[l])
                             /\ con' = con
  <2>1. PICK l \in Lists : /\ q = <<>> /\ con[l] # <<>> /\ q' = Tail(con[l])
                           /\ con' = con
    BY <1>12
  <2>2. Hash!Promise!LoopBegins(l)
    BY <2>1 DEF con, q, Hash!Promise!LoopBegins
  <2> QED
    BY <2>2 DEF Hash!Promise!Next
<1>13. CASE q # <<>> /\ q' = Tail(q) /\ con' = con
  BY <1>13 DEF con, q, Hash!Promise!Next, Hash!Promise!LoopGoesOn
<1> QED
  BY <1>7, <1>8, <1>9, <1>10, <1>11, <1>12, <1>13 DEF SequenceTurn

\* The lists are empty, and no loop is going on, to begin with.
LEMMA SequencesInit ==
  Linked!Init /\ Hash!Init => Linked!Promise!Init /\ Hash!Promise!Init
<1> SUFFICES ASSUME Linked!Init, Hash!Init
             PROVE  Linked!Promise!Init /\ Hash!Promise!Init
  OBVIOUS
<1>1. [l \in Lists |-> Linked!Content(l)] = [l \in Lists |-> <<>>]
  <2>1. PICK c : LinkedHolds(h, c)
    BY LinkedInit DEF LinkedInv
  <2>2. ASSUME NEW l \in Lists PROVE c[l] = <<>>
    <3>1. h.next[l] = l
      BY DEF Linked!Init, Linked!Cells
    <3> QED
      BY <2>1, <3>1, EmptyIs DEF LinkedHolds
  <2>3. [l \in Lists |-> Linked!Content(l)] = c
    BY <2>1, LinkedContent DEF Linked!Content
  <2>4. c \in [Lists -> Seq(Entries)]
    BY <2>1 DEF LinkedHolds, Kept, Rings
  <2> QED
    BY <2>2, <2>3, <2>4
<1>2. Linked!Promise!Init
  BY <1>1 DEF Linked!Init, Linked!Promise!Init, Linked!Rest, Linked!NoLoop
<1>3. \A l \in Lists : Hash!From(field, field[l], NULL, Hash!Bound) = <<>>
  <2>1. PICK c : HashHolds(field, pprev, c)
    BY HashInit DEF HashInv
  <2>2. ASSUME NEW l \in Lists PROVE c[l] = <<>>
    <3>1. field[l] = NULL
      BY DEF Hash!Init
    <3>2. /\ c[l] \in Seq(Entries) /\ Len(c[l]) \in Nat /\ NULL \notin Entries
          /\ NULL = At(NULL, c[l], 1)
      BY <2>1, <3>1, HashWalks
    <3>3. 1 \notin 1 .. Len(c[l])
      BY <3>2 DEF At
    <3> QED
      BY <3>2, <3>3
  <2> QED
    BY <2>1, <2>2, HashContent
<1>4. Hash!Promise!Init
  BY <1>3 DEF Hash!Init, Hash!Promise!Init, Hash!NoLoop
<1> QED
  BY <1>2, <1>4

-----------------------------------------------------------------------------
(* The library together.                                                   *)

\* What holds of every component, the one that runs and those that stay as
\* they began.
LibraryInv ==
  /\ AtomicInv /\ LinkedInv /\ HashInv /\ CacheInv /\ InfoInv /\ MemoryInv

\* One component runs, and the others change nothing.
LEMMA StepsOfLibrary ==
  ASSUME [Next]_<<part, atomic_vars, linked_vars, hash_vars, cache_vars,
                  info_vars, memory_vars, input, val>>
  PROVE  /\ [Atomic!Next]_(Atomic!list_vars)
         /\ [Linked!Next]_(Linked!list_vars)
         /\ [Hash!Next]_(Hash!hash_vars)
         /\ [Cache!Next]_cache_vars
         /\ [Info!Next]_(Info!info_vars)
         /\ [Memory!Next]_(Memory!memory_vars)
BY DEF Next, Others, atomic_vars, linked_vars, hash_vars, cache_vars,
       info_vars, memory_vars, Atomic!list_vars, Linked!list_vars,
       Hash!hash_vars, Info!info_vars, Memory!memory_vars

\* A list that lies in memory nobody has set up is one of any contents.
LEMMA LibraryInit == Init => LibraryInv
<1> SUFFICES ASSUME Init PROVE LibraryInv
  OBVIOUS
<1>1. /\ Atomic!NothingAdded /\ mine \in [Threads -> SUBSET Entries]
      /\ \A t, u \in Threads : \A x \in mine[t] : x \in mine[u] => t = u
  <2>1. CASE part = "atomic"
    <3>1. Atomic!Init
      BY <2>1 DEF Init
    <3> QED
      BY <3>1 DEF Atomic!Init
  <2>2. CASE part # "atomic"
    BY <2>2 DEF Init
  <2> QED
    BY <2>1, <2>2
<1>2. AtomicInv
  BY <1>1, AtomicInit
<1>3. LinkedInv /\ HashInv /\ CacheInv
  BY LinkedInit, HashInit, CacheInit DEF Init
<1>4. InfoInv /\ MemoryInv
  BY InfoInit, MemoryInit DEF Init
<1> QED
  BY <1>2, <1>3, <1>4 DEF LibraryInv

\* Every step of the library keeps the invariant of every component.
LEMMA LibraryStep ==
  LibraryInv /\ [Next]_<<part, atomic_vars, linked_vars, hash_vars, cache_vars,
                         info_vars, memory_vars, input, val>>
    => LibraryInv'
<1> SUFFICES ASSUME LibraryInv,
                    [Next]_<<part, atomic_vars, linked_vars, hash_vars,
                             cache_vars, info_vars, memory_vars, input, val>>
             PROVE  LibraryInv'
  OBVIOUS
<1>1. /\ [Atomic!Next]_(Atomic!list_vars)
      /\ [Linked!Next]_(Linked!list_vars)
      /\ [Hash!Next]_(Hash!hash_vars)
      /\ [Cache!Next]_cache_vars
      /\ [Info!Next]_(Info!info_vars)
      /\ [Memory!Next]_(Memory!memory_vars)
  BY StepsOfLibrary
<1>2. AtomicInv'
  BY <1>1, AtomicStep DEF LibraryInv
<1>3. LinkedInv'
  BY <1>1, LinkedStep DEF LibraryInv
<1>4. HashInv'
  BY <1>1, HashStep DEF LibraryInv
<1>5. CacheInv'
  BY <1>1, CacheStep DEF LibraryInv
<1>6. InfoInv'
  BY <1>1, InfoStep DEF LibraryInv
<1>7. MemoryInv'
  BY <1>1, MemoryStep DEF LibraryInv
<1> QED
  BY <1>2, <1>3, <1>4, <1>5, <1>6, <1>7 DEF LibraryInv

\* The invariants of the components hold of the library.
THEOREM LibraryInvariance == Spec => []LibraryInv
BY LibraryInit, LibraryStep, PTL DEF Spec

\* Type correctness of every component: no link, place, node, request, page or
\* count is ever anything else than what its type says.
THEOREM LibraryTypeCorrect == Spec => []LibraryTypes
<1>1. LibraryInv => LibraryTypes
  BY LinkedInvAgrees, HashInvTypes, CacheInvTypes, InfoInvTypes,
     MemoryInvKeepsNothing
     DEF LibraryInv, LibraryTypes, AtomicInv, AtomicShape
<1> QED
  BY <1>1, LibraryInvariance, PTL

\* Whatever sequence of adds, deletions, moves, splices and safe loops, the
\* links of every list lead forth and back through the same entries, and no
\* entry is on two lists.
THEOREM LinksAlwaysAgree == Spec => []LinksAgree
<1>1. LibraryInv => LinksAgree
  BY LinkedInvAgrees DEF LibraryInv, LinksAgree
<1> QED
  BY <1>1, LibraryInvariance, PTL

\* The core frees a node when its removal returns: no handler is in it then.
THEOREM NoHandlerRuns == Spec => []NoHandlerOnGone
<1>1. LibraryInv => NoHandlerOnGone
  BY InfoInvHandlers DEF LibraryInv, NoHandlerOnGone
<1> QED
  BY <1>1, LibraryInvariance, PTL

\* A read with no room for the text is told the size a second one needs.
THEOREM SizeAlwaysTold == Spec => []SizeTold
<1>1. LibraryInv => SizeTold
  BY DEF LibraryInv, InfoInv, SizeTold
<1> QED
  BY <1>1, LibraryInvariance, PTL

\* No object of a cache, reference or text of a request, nor memory or wired
\* page of an allocation is lost: not when a reservation or an allocation fails
\* half-way, not when calls overlap, and not when the cache is destroyed.
THEOREM LibraryKeepsNothing == Spec => []NothingKept
<1>1. LibraryInv => NothingKept
  BY CacheLosesNothing, MemoryInvKeepsNothing
     DEF LibraryInv, NothingKept, InfoInv
<1> QED
  BY <1>1, LibraryInvariance, PTL

\* Adds that are overtaken, takes of all and loops that add again what they have
\* met are a stack's: no entry is lost, met twice, met by two threads or out of
\* turn, however many threads there are.
THEOREM ListIsStack == Spec => ImplementsStack
<1>1. Init => (part = "atomic" => Atomic!Stack!Init)
  BY StackInit DEF Init
<1>2. LibraryInv /\ [Next]_<<part, atomic_vars, linked_vars, hash_vars, cache_vars,
                            info_vars, memory_vars, input, val>>
        => [part = "atomic" => [Atomic!Stack!Next]_(Atomic!Stack!vars)]_atomic_vars
  BY StepsOfLibrary, AtomicRefines DEF LibraryInv
<1> QED
  BY <1>1, <1>2, LibraryInvariance, PTL DEF Spec, ImplementsStack

\* A linked list and a hash list are sequences: each call changes one or two of
\* them as its comment says, and a loop meets what was on its list when it began,
\* though its body takes off what it is at.
THEOREM ListsAreSequences == Spec => ImplementsSequences
<1>1. Init => Linked!Promise!Init /\ Hash!Promise!Init
  BY SequencesInit DEF Init
<1>2. LibraryInv /\ [Next]_<<part, atomic_vars, linked_vars, hash_vars, cache_vars,
                            info_vars, memory_vars, input, val>>
        => [part = "linked" => [Linked!Promise!Next]_(Linked!Promise!vars)]_linked_vars
  BY StepsOfLibrary, LinkedRefines DEF LibraryInv
<1>3. LibraryInv /\ [Next]_<<part, atomic_vars, linked_vars, hash_vars, cache_vars,
                            info_vars, memory_vars, input, val>>
        => [part = "hash" => [Hash!Promise!Next]_(Hash!Promise!vars)]_hash_vars
  BY StepsOfLibrary, HashRefines DEF LibraryInv
<1> QED
  BY <1>1, <1>2, <1>3, LibraryInvariance, PTL DEF Spec, ImplementsSequences

-----------------------------------------------------------------------------
(* Algorithms without loops, for every input and any width.                *)

\* A number that is less than a turn away, either way.
LEMMA WrapsOnce ==
  ASSUME NEW m \in Nat, m > 0, NEW x \in Int, -m <= x, x < 2 * m
  PROVE  x % m = IF x < 0 THEN x + m ELSE IF x < m THEN x ELSE x - m
<1> DEFINE q == x \div m
           r == x % m
<1>1. x = m * q + r /\ q \in Int /\ r \in 0 .. m - 1
  BY SMT
<1> HIDE DEF q, r
<1>2. q >= -1
  <2>1. q <= -2 => m * q <= m * (-2)
    BY <1>1
  <2> QED
    BY <1>1, <2>1
<1>3. q <= 1
  <2>1. q >= 2 => m * q >= m * 2
    BY <1>1
  <2> QED
    BY <1>1, <2>1
<1>4. q \in {-1, 0, 1}
  BY <1>1, <1>2, <1>3
<1>5. x = r - m \/ x = r \/ x = r + m
  BY <1>1, <1>4
<1>6. r = IF x < 0 THEN x + m ELSE IF x < m THEN x ELSE x - m
  BY <1>1, <1>5
<1> QED
  BY <1>6 DEF r

\* A period is over when it is, however often the clock has wrapped.
THEOREM PeriodsEnd ==
  ASSUME Calls!Half \in Nat \ {0}, 2 ^ TimeWidth = 2 * Calls!Half,
         NEW then \in Calls!Times, NEW period \in 0 .. Calls!Half - 1,
         NEW elapsed \in 0 .. Calls!Half - 1
  PROVE  Calls!TimesAgree(then, period, elapsed)
<1> DEFINE H == Calls!Half
           m == 2 ^ TimeWidth
           now == Calls!Wrapped(then + elapsed)
           end == Calls!Wrapped(then + period)
<1>1. H \in Nat /\ H > 0 /\ m = 2 * H /\ m \in Nat /\ m > 0
      /\ then \in 0 .. m - 1 /\ period \in 0 .. H - 1 /\ elapsed \in 0 .. H - 1
  BY DEF Calls!Times
<1>2. /\ now = (then + elapsed) % m
      /\ end = (then + period) % m
      /\ \A a, b : Calls!Difference(a, b) = Calls!Signed(Calls!Signed(a) - Calls!Signed(b))
      /\ \A t : Calls!Signed(t) = IF t % m < H THEN t % m ELSE (t % m) - m
  BY DEF Calls!Wrapped, Calls!Difference, Calls!Signed
<1>3. Calls!TimesAgree(then, period, elapsed)
        <=> /\ Calls!Difference(end, now) < 0 <=> elapsed > period
            /\ Calls!Difference(now, end) >= 0 <=> elapsed >= period
  BY DEF Calls!TimesAgree, Calls!PERIOD_OVER, Calls!kfio_time_after64,
         Calls!kfio_time_after_eq64
<1> HIDE DEF H, m, now, end
<1>4. /\ now = IF then + elapsed < m THEN then + elapsed ELSE then + elapsed - m
      /\ end = IF then + period < m THEN then + period ELSE then + period - m
  BY <1>1, <1>2, WrapsOnce
<1>5. now \in 0 .. m - 1 /\ end \in 0 .. m - 1
  BY <1>1, <1>4
<1> DEFINE sn == IF now < H THEN now ELSE now - m
           se == IF end < H THEN end ELSE end - m
<1>6. Calls!Signed(now) = sn /\ Calls!Signed(end) = se
  <2>1. now % m = now /\ end % m = end
    BY <1>1, <1>5, WrapsOnce
  <2> QED
    BY <1>2, <2>1
<1>7. /\ Calls!Difference(end, now) = Calls!Signed(se - sn)
      /\ Calls!Difference(now, end) = Calls!Signed(sn - se)
  BY <1>2, <1>6
<1>8. /\ (se - sn) % m = IF se - sn < 0 THEN se - sn + m ELSE se - sn
      /\ (sn - se) % m = IF sn - se < 0 THEN sn - se + m ELSE sn - se
  <2>1. /\ se - sn \in Int /\ se - sn >= -m /\ se - sn < m
        /\ sn - se \in Int /\ sn - se >= -m /\ sn - se < m
    BY <1>1, <1>5
  <2> QED
    BY <1>1, <2>1, WrapsOnce
<1>9. Calls!Difference(end, now) < 0 <=> elapsed > period
  <2>1. Calls!Signed(se - sn) = IF (se - sn) % m < H THEN (se - sn) % m
                                ELSE ((se - sn) % m) - m
    BY <1>2
  <2> QED
    BY <1>1, <1>4, <1>7, <1>8, <2>1
<1>10. Calls!Difference(now, end) >= 0 <=> elapsed >= period
  <2>1. Calls!Signed(sn - se) = IF (sn - se) % m < H THEN (sn - se) % m
                                ELSE ((sn - se) % m) - m
    BY <1>2
  <2> QED
    BY <1>1, <1>4, <1>7, <1>8, <2>1
<1> QED
  BY <1>3, <1>9, <1>10

\* Every error number has its own message, or the one of those that have none.
THEOREM ErrorsHaveMessages ==
  \A errnum \in Int : Calls!StrerrorAgrees(errnum)
<1> SUFFICES ASSUME NEW errnum \in Int PROVE Calls!StrerrorAgrees(errnum)
  OBVIOUS
<1> DEFINE L == Calls!Listed
           U == Calls!EUNKNOWN
           num(i) == Calls!errno_num(i)
           e == IF -errnum <= 0 THEN 0 ELSE -errnum
           want == IF errnum > 0 THEN 0 ELSE IF -errnum \in L THEN -errnum ELSE U
           First(k) == /\ k \in 0 .. U /\ num(k) \in {-1, e}
                       /\ \A i \in 0 .. k - 1 : num(i) \notin {-1, e}
<1>1. /\ L \subseteq 0 .. U - 1 /\ 0 \in L /\ U = 1028
      /\ \A i : num(i) = IF i = U THEN -1 ELSE IF i \in L THEN i ELSE 0
  BY DEF Calls!Listed, Calls!EUNKNOWN, Calls!errno_num
<1>2. Calls!get_strerror_entries_index(errnum)
        = CHOOSE k \in 0 .. U : /\ num(k) \in {-1, e}
                                /\ \A i \in 0 .. k - 1 : num(i) \notin {-1, e}
  BY DEF Calls!get_strerror_entries_index
<1> HIDE DEF L, U, num
<1>3. First(want)
  <2>1. CASE want = U
    BY <1>1, <2>1
  <2>2. CASE want # U
    <3>1. want = e /\ e \in L /\ num(e) = e
      BY <1>1, <2>2
    <3>2. \A i \in 0 .. e - 1 : num(i) # -1 /\ num(i) # e
      BY <1>1, <3>1
    <3> QED
      BY <1>1, <3>1, <3>2
  <2> QED
    BY <2>1, <2>2
<1>4. \A k : First(k) => k = want
  <2> SUFFICES ASSUME NEW k, First(k) PROVE k = want
    OBVIOUS
  <2>1. k \in Int /\ want \in Int /\ ~(k < want) /\ ~(want < k)
    BY <1>1, <1>3
  <2> QED
    BY <2>1
<1> HIDE DEF e, want
<1>5. (CHOOSE k \in 0 .. U : /\ num(k) \in {-1, e}
                             /\ \A i \in 0 .. k - 1 : num(i) \notin {-1, e}) = want
  BY <1>3, <1>4
<1> QED
  BY <1>2, <1>5 DEF Calls!StrerrorAgrees, want, L, U

\* n bytes are pairs of runs of k, and each byte comes from the other run.
Paired(n, k) ==
  \A i \in 1 .. n : IF ((i - 1) \div k) % 2 = 1 THEN i > k ELSE i + k <= n

Exchanged(n, k, w) ==
  [i \in 1 .. n |-> IF ((i - 1) \div k) % 2 = 1 THEN w[i - k] ELSE w[i + k]]

\* The pairs of runs there are in words of 8 and 4 bytes.
LEMMA RunsArePaired ==
  Paired(8, 1) /\ Paired(8, 2) /\ Paired(8, 4) /\ Paired(4, 1)
<1>1. Paired(8, 1)
  BY DEF Paired
<1>2. Paired(8, 2)
  BY DEF Paired
<1>3. Paired(8, 4)
  BY DEF Paired
<1>4. Paired(4, 1)
  BY DEF Paired
<1> QED
  BY <1>1, <1>2, <1>3, <1>4

LEMMA ExchangeIs ==
  \A n \in Nat, k \in Nat : Paired(n, k) =>
    \A B : \A w \in [1 .. n -> B] :
      Bits!Exchange(w, k) = Exchanged(n, k, w) /\ Exchanged(n, k, w) \in [1 .. n -> B]
<1> SUFFICES ASSUME NEW n \in Nat, NEW k \in Nat, Paired(n, k),
                    NEW B, NEW w \in [1 .. n -> B]
             PROVE  /\ Bits!Exchange(w, k) = Exchanged(n, k, w)
                    /\ Exchanged(n, k, w) \in [1 .. n -> B]
  OBVIOUS
<1>0. \A i \in 1 .. n : IF ((i - 1) \div k) % 2 = 1 THEN i > k ELSE i + k <= n
  BY DEF Paired
<1> DEFINE up == Bits!Up(w, k)
           down == Bits!Down(w, k)
           Odd(i) == ((i - 1) \div k) % 2 = 1
           high == {i \in DOMAIN w : Odd(i)}
           a == Bits!Masked(up, high)
           b == Bits!Masked(down, DOMAIN w \ high)
<1>1. DOMAIN w = 1 .. n
  OBVIOUS
<1>2. /\ up = [i \in 1 .. n |-> IF i > k THEN w[i - k] ELSE Bits!Zero]
      /\ down = [i \in 1 .. n |-> IF i + k \in 1 .. n THEN w[i + k] ELSE Bits!Zero]
  BY <1>1 DEF Bits!Up, Bits!Down
<1> HIDE DEF up, down
<1>3. /\ a = [i \in 1 .. n |-> IF i \in high THEN up[i] ELSE Bits!Zero]
      /\ b = [i \in 1 .. n |-> IF i \in DOMAIN w \ high THEN down[i] ELSE Bits!Zero]
  BY <1>2 DEF Bits!Masked
<1>4. Bits!Exchange(w, k) = [i \in 1 .. n |-> IF a[i] = Bits!Zero THEN b[i] ELSE a[i]]
  <2>1. Bits!Exchange(w, k) = Bits!Either(a, b)
    BY DEF Bits!Exchange, up, down
  <2>2. DOMAIN a = 1 .. n
    BY <1>3
  <2> HIDE DEF a, b
  <2> QED
    BY <2>1, <2>2 DEF Bits!Either
<1> HIDE DEF a, b
<1>5. \A i \in 1 .. n : i \in high <=> Odd(i)
  BY <1>1
<1> HIDE DEF high
<1>6. ASSUME NEW i \in 1 .. n
      PROVE  (IF a[i] = Bits!Zero THEN b[i] ELSE a[i])
               = IF Odd(i) THEN w[i - k] ELSE w[i + k]
  <2>1. CASE Odd(i)
    <3>1. i > k /\ i \in high
      BY <1>0, <1>5, <2>1
    <3>2. a[i] = w[i - k] /\ b[i] = Bits!Zero
      BY <1>2, <1>3, <3>1
    <3> QED
      BY <2>1, <3>2
  <2>2. CASE ~Odd(i)
    <3>1. i + k \in 1 .. n /\ i \in DOMAIN w \ high /\ i \notin high
      BY <1>0, <1>1, <1>5, <2>2
    <3>2. a[i] = Bits!Zero /\ b[i] = w[i + k]
      BY <1>2, <1>3, <3>1
    <3> QED
      BY <2>2, <3>2
  <2> QED
    BY <2>1, <2>2
<1>7. Bits!Exchange(w, k) = Exchanged(n, k, w)
  BY <1>4, <1>6 DEF Exchanged
<1>8. ASSUME NEW i \in 1 .. n
      PROVE  (IF Odd(i) THEN w[i - k] ELSE w[i + k]) \in B
  <2>1. (Odd(i) => i - k \in 1 .. n) /\ (~Odd(i) => i + k \in 1 .. n)
    BY <1>0
  <2> QED
    BY <2>1
<1>9. Exchanged(n, k, w) \in [1 .. n -> B]
  BY <1>8 DEF Exchanged
<1> QED
  BY <1>7, <1>9

\* Whatever the bytes of a word are, swapping turns them round.
THEOREM BytesTurnRound ==
  ASSUME NEW B, NEW w
  PROVE  /\ w \in [1 .. 8 -> B] => Bits!fusion_bswap64(w) = [i \in 1 .. 8 |-> w[9 - i]]
         /\ w \in [1 .. 4 -> B] => Bits!fusion_bswap32(w) = [i \in 1 .. 4 |-> w[5 - i]]
         /\ w \in [1 .. 2 -> B] => Bits!fusion_bswap16(w) = [i \in 1 .. 2 |-> w[3 - i]]
<1> DEFINE Turns(n, k, x) ==
             /\ Bits!Exchange(x, k) = Exchanged(n, k, x)
             /\ Exchanged(n, k, x) \in [1 .. n -> B]
<1>1. ASSUME NEW x \in [1 .. 8 -> B] PROVE Turns(8, 1, x)
  BY ExchangeIs, RunsArePaired
<1>2. ASSUME NEW x \in [1 .. 8 -> B] PROVE Turns(8, 2, x)
  BY ExchangeIs, RunsArePaired
<1>3. ASSUME NEW x \in [1 .. 8 -> B] PROVE Turns(8, 4, x)
  BY ExchangeIs, RunsArePaired
<1>4. ASSUME w \in [1 .. 8 -> B]
      PROVE  Bits!fusion_bswap64(w) = [i \in 1 .. 8 |-> w[9 - i]]
  <2> DEFINE v1 == Exchanged(8, 1, w)
             v2 == Exchanged(8, 2, v1)
             v4 == Exchanged(8, 4, v2)
  <2>1. v1 = Bits!Exchange(w, 1) /\ v1 \in [1 .. 8 -> B]
    BY <1>4, <1>1
  <2>2. /\ v1[1] = w[2] /\ v1[2] = w[1] /\ v1[3] = w[4] /\ v1[4] = w[3]
        /\ v1[5] = w[6] /\ v1[6] = w[5] /\ v1[7] = w[8] /\ v1[8] = w[7]
    BY DEF Exchanged
  <2> HIDE DEF v1
  <2>3. v2 = Bits!Exchange(v1, 2) /\ v2 \in [1 .. 8 -> B]
    BY <2>1, <1>2
  <2>4. /\ v2[1] = w[4] /\ v2[2] = w[3] /\ v2[3] = w[2] /\ v2[4] = w[1]
        /\ v2[5] = w[8] /\ v2[6] = w[7] /\ v2[7] = w[6] /\ v2[8] = w[5]
    BY <2>2 DEF Exchanged
  <2> HIDE DEF v2
  <2>5. v4 = Bits!Exchange(v2, 4) /\ v4 \in [1 .. 8 -> B]
    BY <2>3, <1>3
  <2>6. /\ v4[1] = w[8] /\ v4[2] = w[7] /\ v4[3] = w[6] /\ v4[4] = w[5]
        /\ v4[5] = w[4] /\ v4[6] = w[3] /\ v4[7] = w[2] /\ v4[8] = w[1]
    BY <2>4 DEF Exchanged
  <2> HIDE DEF v4
  <2>7. \A i \in 1 .. 8 : v4[i] = w[9 - i]
    BY <2>6
  <2>8. v4 = [i \in 1 .. 8 |-> w[9 - i]]
    BY <2>5, <2>7
  <2> QED
    BY <2>1, <2>3, <2>5, <2>8 DEF Bits!fusion_bswap64
<1>5. ASSUME w \in [1 .. 4 -> B]
      PROVE  Bits!fusion_bswap32(w) = [i \in 1 .. 4 |-> w[5 - i]]
  <2> DEFINE v == Exchanged(4, 1, w)
             up == Bits!Up(v, 2)
             down == Bits!Down(v, 2)
  <2>1. v = Bits!Exchange(w, 1) /\ v \in [1 .. 4 -> B]
    BY <1>5, ExchangeIs, RunsArePaired
  <2>2. v[1] = w[2] /\ v[2] = w[1] /\ v[3] = w[4] /\ v[4] = w[3]
    BY DEF Exchanged
  <2> HIDE DEF v
  <2>3. /\ up = [i \in 1 .. 4 |-> IF i > 2 THEN v[i - 2] ELSE Bits!Zero]
        /\ down = [i \in 1 .. 4 |-> IF i + 2 \in 1 .. 4 THEN v[i + 2] ELSE Bits!Zero]
    BY <2>1 DEF Bits!Up, Bits!Down
  <2> HIDE DEF up, down
  <2>4. Bits!Either(up, down)
          = [i \in 1 .. 4 |-> IF up[i] = Bits!Zero THEN down[i] ELSE up[i]]
    BY <2>3 DEF Bits!Either
  <2>5. \A i \in 1 .. 4 : (IF up[i] = Bits!Zero THEN down[i] ELSE up[i]) = w[5 - i]
    BY <2>2, <2>3
  <2>6. Bits!fusion_bswap32(w) = Bits!Either(up, down)
    BY <2>1 DEF Bits!fusion_bswap32, up, down
  <2> QED
    BY <2>4, <2>5, <2>6
<1>6. ASSUME w \in [1 .. 2 -> B]
      PROVE  Bits!fusion_bswap16(w) = [i \in 1 .. 2 |-> w[3 - i]]
  <2> DEFINE up == Bits!Up(w, 1)
             down == Bits!Down(w, 1)
  <2>1. /\ up = [i \in 1 .. 2 |-> IF i > 1 THEN w[i - 1] ELSE Bits!Zero]
        /\ down = [i \in 1 .. 2 |-> IF i + 1 \in 1 .. 2 THEN w[i + 1] ELSE Bits!Zero]
    BY <1>6 DEF Bits!Up, Bits!Down
  <2>2. Bits!fusion_bswap16(w) = Bits!Either(up, down)
    BY DEF Bits!fusion_bswap16
  <2> HIDE DEF up, down
  <2>3. Bits!Either(up, down)
          = [i \in 1 .. 2 |-> IF up[i] = Bits!Zero THEN down[i] ELSE up[i]]
    BY <2>1 DEF Bits!Either
  <2>4. \A i \in 1 .. 2 : (IF up[i] = Bits!Zero THEN down[i] ELSE up[i]) = w[3 - i]
    BY <2>1
  <2> QED
    BY <2>2, <2>3, <2>4
<1> QED
  BY <1>4, <1>5, <1>6

\* Whatever the bytes of a register are, it has them lowest first, for a host
\* of either order, and the host reads them as it wrote them.
THEOREM RegistersKeepOrder ==
  ASSUME NEW B, NEW w \in [1 .. 4 -> B], NEW big \in BOOLEAN
  PROVE  Bits!kfio_csr_write(w, big) = w /\ Bits!kfio_csr_read_direct(w, big) = w
<1> DEFINE r == [i \in 1 .. 4 |-> w[5 - i]]
           t == [i \in 1 .. 4 |-> r[5 - i]]
<1>1. Bits!fusion_bswap32(w) = r
  BY BytesTurnRound
<1>2. r \in [1 .. 4 -> B] /\ t = w
  OBVIOUS
<1> HIDE DEF r
<1>3. Bits!fusion_bswap32(r) = t
  BY <1>2, BytesTurnRound
<1>4. Bits!Reverse(r) = t /\ Bits!Reverse(w) = r
  <2>1. Len(w) = 4 /\ Len(r) = 4
    BY <1>2
  <2> QED
    BY <1>2, <2>1 DEF Bits!Reverse, r
<1> HIDE DEF t
<1> QED
  BY <1>1, <1>2, <1>3, <1>4
     DEF Bits!kfio_csr_write, Bits!kfio_csr_read_direct, Bits!CardOrder, Bits!Stored
=============================================================================
