----------------------------- MODULE InfoTree -----------------------------
(***************************************************************************)
(* kinfo.c: the binary core's information nodes as sysctl nodes, and the   *)
(* requests users make on them.  The core, external, has a tree of nodes,  *)
(* makes a node in a directory it has, and removes what is in a directory  *)
(* before the directory.  The kernel's sysctl, external too, enters a      *)
(* handler only while its oid is registered, refuses to write an oid that  *)
(* is not writable, and ends the removal of an oid, asked to delete it,    *)
(* when no handler runs in it.  What the nodes hold is left out.           *)
(***************************************************************************)
EXTENDS Naturals

CONSTANTS
  Nodes, NoNode,
  Types,        \* types of nodes, among "dir", "int32", "uint", "string",
                \* "text" and "seqfile"
  Threads,
  MaxText       \* bound on the bytes a text takes, and on a user's buffer

VARIABLES
  node,         \* the core's nodes: their parent, type and mode
  os_private,   \* nodes that have an entry, and so an oid
  removing,     \* nodes in kfio_info_os_remove_node
  req           \* the request a thread is in, or what the last one came to

info_vars == <<node, os_private, removing, req>>

None == [type |-> "none"]
NoRoom == MaxText + 1           \* req->oldptr == NULL
NoRequest == [pc |-> "idle", rc |-> "none", n |-> NoNode, room |-> NoRoom,
              oldidx |-> 0, total |-> 0, has |-> {}]

Init ==
  /\ node = [n \in Nodes |-> None]
  /\ os_private = {}
  /\ removing = {}
  /\ req = [t \in Threads |-> NoRequest]

Exists(n) == node[n] # None

-----------------------------------------------------------------------------
(* kfio_info_os_create_node and kfio_info_os_remove_node.                  *)

\* A directory, its entry not given up: what parent_list is taken from.
MayHold(p, type) ==
  IF p = NoNode THEN type = "dir" ELSE p \in os_private

\* ctl_mode is computed and not used: the type decides what may be written.
Writable(type, mode) == type = "int32"

\* kfio_malloc waits and does not fail.  A node without an entry is the
\* core's all the same.
Create(n, p, type, mode) ==
  /\ ~Exists(n)
  /\ p # NoNode => Exists(p) /\ node[p].type = "dir" /\ p \notin removing
  /\ node' = [node EXCEPT ![n] = [parent |-> p, type |-> type, mode |-> mode]]
  /\ \/ UNCHANGED os_private               \* -EIO: no parent, or no oid made
     \/ MayHold(p, type) /\ os_private' = os_private \cup {n}
  /\ UNCHANGED <<removing, req>>

Remove(n) ==
  /\ Exists(n) /\ n \notin removing
  /\ \A m \in Nodes : Exists(m) => node[m].parent # n
  /\ IF n \in os_private
       THEN /\ os_private' = os_private \ {n}
            /\ removing' = removing \cup {n}
            /\ UNCHANGED node
       ELSE node' = [node EXCEPT ![n] = None] /\ UNCHANGED <<os_private, removing>>
  /\ UNCHANGED req

\* Mutation: the oid is removed with del = 0.
Drained_NotAsked(n) == TRUE

Drained(n) == \A t \in Threads : req[t].pc = "idle" \/ req[t].n # n

\* sysctl_remove_oid returns, and the core gives up the node.
RemoveEnds(n) ==
  /\ n \in removing
  /\ Drained(n)
  /\ removing' = removing \ {n}
  /\ node' = [node EXCEPT ![n] = None]
  /\ UNCHANGED <<os_private, req>>

-----------------------------------------------------------------------------
(* Requests.                                                               *)

Becomes(t, r) ==
  /\ req' = [req EXCEPT ![t] = r]
  /\ UNCHANGED <<node, os_private, removing>>

\* The end of both handlers: what kfio_vmalloc gave is freed.
Finish(r, rc) == [r EXCEPT !.pc = "idle", !.rc = rc, !.has = @ \ {"data"}]

Fails(t, r) == Becomes(t, Finish(r, "failed"))

\* Mutation: the handle of the data is not freed.
HandleFreed_Never(r) == r

HandleFreed(r) == [r EXCEPT !.has = @ \ {"dbh"}]

\* kfio_sysctl_type_proc.  A string longer than its stack buffer is read into
\* one from kfio_vmalloc; the write half of a string is for a writable one,
\* which Create does not make.
TypeRequest(t, n, long) ==
  /\ req[t].pc = "idle"
  /\ n \in os_private /\ node[n].type \in {"int32", "uint", "string"}
  /\ Becomes(t, [NoRequest EXCEPT !.pc = "type", !.n = n,
                 !.has = IF node[n].type = "string" /\ long THEN {"data"} ELSE {}])

TypeRead(t) ==
  /\ req[t].pc = "type"
  /\ Becomes(t, Finish(req[t], "ok"))

\* SYSCTL_IN gave a new value; the core takes it and gives the old one.
TypeWrite(t) ==
  /\ req[t].pc = "type"
  /\ Writable(node[req[t].n].type, node[req[t].n].mode)
  /\ Becomes(t, [req[t] EXCEPT !.pc = "written"])

\* SYSCTL_OUT of the old one.
TypeOut(t) ==
  /\ req[t].pc = "written"
  /\ Becomes(t, Finish(req[t], "ok"))

TypeFails(t) == req[t].pc \in {"type", "written"} /\ Fails(t, req[t])

\* kfio_sysctl_text_proc.
TextRequest(t, n, room) ==
  /\ req[t].pc = "idle"
  /\ n \in os_private /\ node[n].type \in {"text", "seqfile"}
  /\ Becomes(t, [NoRequest EXCEPT !.pc = "handle", !.n = n, !.room = room,
                 !.has = IF room = NoRoom THEN {} ELSE {"data"}])

Handle(t) ==
  /\ req[t].pc = "handle"
  /\ Becomes(t, [req[t] EXCEPT !.pc = node[req[t].n].type, !.has = @ \cup {"dbh"}])

HandleFails(t) == req[t].pc = "handle" /\ Fails(t, req[t])

\* The core's handler writes the text, as long as it is now.
Text(t, total) ==
  /\ req[t].pc = "text"
  /\ Becomes(t, [req[t] EXCEPT !.pc = "out", !.total = total])

TextFails(t) == req[t].pc = "text" /\ Fails(t, HandleFreed(req[t]))

\* kfio_info_seqfile_handler: the position is taken, shown, moved, left.
SeqInit(t) ==
  /\ req[t].pc = "seqfile"
  /\ Becomes(t, [req[t] EXCEPT !.pc = "show", !.has = @ \cup {"cookie"}])

SeqShow(t) ==
  /\ req[t].pc = "show"
  /\ req[t].total < MaxText
  /\ Becomes(t, [req[t] EXCEPT !.total = @ + 1])

SeqStopped(r) == [r EXCEPT !.has = @ \ {"cookie"}]

SeqEnds(t) ==
  /\ req[t].pc = "show"
  /\ Becomes(t, [SeqStopped(req[t]) EXCEPT !.pc = "out"])

ShowFails(t) ==
  /\ req[t].pc = "show"
  /\ Fails(t, HandleFreed(SeqStopped(req[t])))

\* What kfio_info_data_size_valid and SYSCTL_OUT make of the text.
Size(r)  == IF r.room = NoRoom THEN 0 ELSE r.room
Valid(r) == IF r.total < Size(r) THEN r.total ELSE Size(r)

\* Mutation: a user who asked for the size is not told of what is beyond.
Beyond_IfGiven(r) == IF r.room = NoRoom THEN 0 ELSE r.total - Size(r)

\* Mutation: the whole length is added to what was copied.
Beyond_All(r) == r.total

Beyond(r) == r.total - Size(r)

Out(t) ==
  LET r == req[t]
      Tells(n, rc) ==
        Becomes(t, [Finish(HandleFreed(r), rc) EXCEPT !.oldidx = @ + n])
  IN  /\ r.pc = "out"
      /\ \/ r.total <= Size(r) /\ Tells(Valid(r), "ok")
         \/ r.total > Size(r)
            /\ Tells(Valid(r) + Beyond(r), IF r.room = NoRoom THEN "ok" ELSE "ENOMEM")

\* Copying out fails, for a user who gave a buffer.
OutFails(t) == req[t].pc = "out" /\ req[t].room # NoRoom
               /\ Fails(t, HandleFreed(req[t]))

Serve(t) ==
  \/ TypeRead(t) \/ TypeWrite(t) \/ TypeOut(t) \/ TypeFails(t)
  \/ Handle(t) \/ HandleFails(t)
  \/ TextFails(t) \/ \E total \in 0 .. MaxText : Text(t, total)
  \/ SeqInit(t) \/ SeqShow(t) \/ SeqEnds(t) \/ ShowFails(t)
  \/ Out(t) \/ OutFails(t)

Next ==
  \/ \E n \in Nodes, p \in Nodes \cup {NoNode}, type \in Types, mode \in BOOLEAN :
       Create(n, p, type, mode)
  \/ \E n \in Nodes : Remove(n) \/ RemoveEnds(n)
  \/ \E t \in Threads :
       \/ \E n \in Nodes, long \in BOOLEAN : TypeRequest(t, n, long)
       \/ \E n \in Nodes, room \in 0 .. NoRoom : TextRequest(t, n, room)
       \/ Serve(t)

Spec == Init /\ [][Next]_info_vars

-----------------------------------------------------------------------------
(* Properties.                                                             *)

TypeOK ==
  /\ \A n \in Nodes : Exists(n) =>
       /\ node[n].type \in Types /\ node[n].mode \in BOOLEAN
       /\ node[n].parent \in Nodes \cup {NoNode}
  /\ os_private \subseteq Nodes /\ removing \subseteq Nodes
  /\ \A t \in Threads :
       /\ req[t].n \in Nodes \cup {NoNode} /\ req[t].room \in 0 .. NoRoom
       /\ req[t].oldidx \in 0 .. MaxText /\ req[t].total \in 0 .. MaxText
       /\ req[t].has \subseteq {"data", "dbh", "cookie"}

\* The core frees a node when its removal returns: no handler is in it then,
\* nor enters it later.
NoHandlerOnGone == \A t \in Threads : req[t].pc # "idle" => Exists(req[t].n)

\* A user learns how long the text is, whether it was asked for alone, fitted,
\* or did not, and is told ENOMEM exactly when a part is missing.
SizeTold ==
  \A t \in Threads : LET r == req[t] IN
    r.pc = "idle" /\ r.rc \in {"ok", "ENOMEM"} =>
      /\ r.oldidx = r.total
      /\ r.rc = "ENOMEM" <=> r.room # NoRoom /\ r.total > r.room

\* However a request ends, its buffer and handle are given back and the
\* position in the sequence is left.
GivesBackAll == \A t \in Threads : req[t].pc = "idle" => req[t].has = {}

\* "Simulate access mode as best as we can": what a user writes reaches the
\* core at nodes that the core made writable.
ModeIsSimulated ==
  \A t \in Threads : req[t].pc = "written" => node[req[t].n].mode
=============================================================================
