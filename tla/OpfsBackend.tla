---------------------------- MODULE OpfsBackend ----------------------------
(* The OPFS worker (opfsBackend.ts) and its client in the kernel (OpfsFs.ts).*)
(*                                                                           *)
(* A handler runs for every request and is cut at its awaits: between two    *)
(* steps of it other handlers run.  The browser's file system is modelled as *)
(* the backend uses it: a handle names a place, not an object, so what was   *)
(* looked at before an await may be gone, or something else, after it.       *)
(* Paths are at most two names long, so that a parent directory is found in  *)
(* one await.  Reads, stat and readdir change nothing and are left out.      *)
EXTENDS Integers, Sequences, SequencesExt, FiniteSets

CONSTANTS
    Client,      \* the guests' system calls, each one at a time
    Name,        \* names of entries
    Request,     \* the calls on paths that they may make
    Trees,       \* what an earlier session may have left in OPFS
    MaxCalls     \* bound on the number of calls

Path    == UNION {[1..n -> Name] : n \in 1..2}
PathOp  == {"open", "opendir", "mkdir", "rmdir", "unlink", "rename"}
FileOp  == {"file_write", "file_truncate", "file_close"}
Errno   == {"ENOENT", "EEXIST", "ENOTDIR", "EISDIR", "ENOTEMPTY", "EINVAL", "EIO", "EBADF"}

\* `truncate` stands for truncate and write together; `to` is only rename's.
PathMessage == [op : PathOp, path : Path, to : Path,
                create : BOOLEAN, exclusive : BOOLEAN, truncate : BOOLEAN]
Message == PathMessage \union [op : FileOp \union {"dir_close"}, handle : Nat]

ASSUME OpfsAssumption ==
    /\ Request \subseteq PathMessage
    /\ \A m \in Request : m.op = "opendir" => Len(m.path) = 1
    /\ \A tree \in Trees :
          /\ tree.dirs \subseteq Path /\ DOMAIN tree.files \subseteq Path \ tree.dirs
          /\ \A p \in DOMAIN tree.files : tree.files[p] \in BOOLEAN
          /\ \A p \in tree.dirs \union DOMAIN tree.files : Front(p) = << >> \/ Front(p) \in tree.dirs
    /\ MaxCalls \in Nat

VARIABLES
    dirs,         \* OPFS: the directories
    files,        \* OPFS: the files, and whether they hold bytes
    canMove,      \* OPFS: whether handles have a method move()
    leaked,       \* OPFS: files whose access handle is open and in no entry
    entries,      \* backend: handle id -> type and place
    nextId,       \* backend: the next handle id
    ready, queue, \* backend: whether it has booted, the requests before that
    refused,      \* backend: whether the root directory was refused to it
    handler,      \* backend: request id -> message and next step
    wire,         \* requests posted to the worker
    replies,      \* replies posted by the worker
    nextRequest,  \* client: OpfsFs.nextId
    pending,      \* client: OpfsFs.pending, request id -> who waits for it
    asked,        \* client: what each guest waits for
    known         \* handles the client was given, with the path that was asked for

opfs    == <<dirs, files, canMove, leaked>>
backend == <<entries, nextId, ready, queue, refused, handler>>
client  == <<nextRequest, pending, asked, known>>
vars    == <<opfs, backend, wire, replies, client>>

Nothing == [op |-> "none"]
NoOne   == [i \in {} |-> Nothing]

Init ==
    /\ \E tree \in Trees : dirs = tree.dirs /\ files = tree.files
    /\ canMove \in BOOLEAN /\ leaked = {}
    /\ entries = NoOne /\ nextId = 1
    /\ ready = FALSE /\ queue = << >> /\ refused = FALSE /\ handler = NoOne
    /\ wire = << >> /\ replies = << >>
    /\ nextRequest = 1 /\ pending = NoOne
    /\ asked = [c \in Client |-> Nothing] /\ known = {}

With(f, x, y)   == [z \in DOMAIN f \union {x} |-> IF z = x THEN y ELSE f[z]]
Without(f, S)   == [z \in DOMAIN f \ S |-> f[z]]

-----------------------------------------------------------------------------
(* OpfsFs.                                                                   *)

\* rpc.
Rpc(c, message) ==
    /\ asked[c] = Nothing
    /\ nextRequest <= MaxCalls
    /\ nextRequest' = nextRequest + 1
    /\ pending' = With(pending, nextRequest, c)
    /\ wire' = Append(wire, [id |-> nextRequest, message |-> message])
    /\ asked' = [asked EXCEPT ![c] = message]
    /\ UNCHANGED <<opfs, backend, replies, known>>

\* A handle's methods; a handle may be borrowed, so anyone may call them.
OnHandle(c) ==
    \E h \in known :
        \E op \in IF h.type = "file" THEN FileOp ELSE {"dir_close"} :
            Rpc(c, [op |-> op, handle |-> h.id])

\* Which of those who wait a reply is for.
ForOldest(reply) == CHOOSE i \in DOMAIN pending : \A j \in DOMAIN pending : i <= j
For(reply) == reply.id

\* The reply listener.
Receive ==
    LET reply == Head(replies)
        id    == For(reply)
        m     == asked[pending[id]]
    IN  /\ replies # << >>
        /\ pending' = Without(pending, {id})
        /\ asked' = [asked EXCEPT ![pending[id]] = Nothing]
        /\ known' = IF reply.handle = 0 THEN known
                    ELSE known \union {[id |-> reply.handle, path |-> m.path,
                                        type |-> IF m.op = "open" THEN "file" ELSE "dir"]}
        /\ replies' = Tail(replies)
        /\ UNCHANGED <<opfs, backend, wire, nextRequest>>

-----------------------------------------------------------------------------
(* OPFS, as the backend's calls find it.                                     *)

IsDir(p)  == p = << >> \/ p \in dirs
IsFile(p) == p \in DOMAIN files
Exists(p) == IsDir(p) \/ IsFile(p)
Parent(p) == Front(p)
Inside(p) == {q \in dirs \union DOMAIN files : IsStrictPrefix(p, q)}

Opened(p) == \E i \in DOMAIN entries : entries[i] = [type |-> "file", path |-> p]

\* A file that has an access handle, or a writable of the rename fallback.
Locked(p) ==
    \/ Opened(p) \/ p \in leaked
    \/ \E i \in DOMAIN handler : handler[i].at = "copy" /\ handler[i].message.to = p

\* removeEntry, without its option `recursive`.
Removable(p) == Exists(p) /\ Inside(p) = {} /\ ~Locked(p)

\* move() replaces a file that nobody has open; a directory goes with what is in it, but
\* not into itself nor over anything.
Movable(p, q) ==
    /\ Exists(p) /\ IsDir(Parent(q)) /\ ~IsDir(q)
    /\ ~IsPrefix(p, q) /\ (IsDir(p) => Len(q) = 1)
    /\ IsDir(p) => ~IsFile(q)
    /\ ~\E r \in Inside(p) \union {p, q} : Locked(r)

-----------------------------------------------------------------------------
(* What a step of a handler does at its end.                                 *)

At(id, ops, at) == id \in DOMAIN handler /\ handler[id].message.op \in ops /\ handler[id].at = at
PathOf(id) == handler[id].message.path
ToOf(id)   == handler[id].message.to

\* On to the step behind the next await.
Goes(id, at) == handler' = [handler EXCEPT ![id].at = at] /\ UNCHANGED replies

Posts(id, message, answer, h) ==
    replies' = Append(replies, [id |-> id, message |-> message, answer |-> answer, handle |-> h])

Answers(id, answer, h) ==
    /\ handler' = Without(handler, {id})
    /\ Posts(id, handler[id].message, answer, h)

\* The catch: an error of the browser's is answered too, as EIO.
AnswersOwnErrors(id, errno) ==
    handler' = Without(handler, {id}) /\ IF errno = "EIO" THEN UNCHANGED replies
                                         ELSE Posts(id, handler[id].message, errno, 0)
AnswersError(id, errno) == Answers(id, errno, 0)

Throws(id, errno) == AnswersError(id, errno) /\ UNCHANGED <<opfs, entries, nextId>>

\* A new handle.
CountedId == Cardinality(DOMAIN entries) + 1
SkippedId == nextId + 1
FreshId   == nextId

Registers(id, type) ==
    /\ entries' = With(entries, FreshId, [type |-> type, path |-> PathOf(id)])
    /\ nextId' = nextId + 1
    /\ Answers(id, "ok", FreshId)

Looks(id, at)      == Goes(id, at) /\ UNCHANGED <<opfs, entries, nextId>>
Changes(fs)        == dirs' = fs.dirs /\ files' = fs.files /\ UNCHANGED <<canMove, leaked, entries, nextId>>
WithFile(p, bytes) == [dirs |-> dirs, files |-> With(files, p, bytes)]
WithoutEntry(p)    == [dirs |-> dirs \ {p}, files |-> Without(files, {p})]

-----------------------------------------------------------------------------
(* The handlers, one action per await.  An await that the browser refuses    *)
(* for a reason other than those named in the code ends in IoFails.          *)

IoFails(id) == id \in DOMAIN handler /\ Throws(id, "EIO")

\* navigate to the directory `dir`, and on to `next`.
Navigates(id, dir, next) ==
    \/ IsDir(dir) /\ Looks(id, next)
    \/ IsFile(dir) /\ Throws(id, "ENOTDIR")
    \/ ~Exists(dir) /\ Throws(id, "ENOENT")

First(m) ==
    CASE m.op = "open" -> IF m.exclusive /\ m.create THEN "precheck" ELSE "create"
      [] m.op = "rename" -> "navigate_to"
      [] OTHER -> "find"

Navigate(id) ==
    /\ At(id, PathOp \ {"opendir"}, "navigate")
    /\ Navigates(id, Parent(PathOf(id)), First(handler[id].message))

OpenDir(id) ==
    LET p == PathOf(id)
    IN  /\ At(id, {"opendir"}, "navigate")
        /\ \/ IsDir(p) /\ Registers(id, "dir") /\ UNCHANGED opfs
           \/ IsFile(p) /\ Throws(id, "ENOTDIR")
           \/ ~Exists(p) /\ Throws(id, "ENOENT")

\* openFile with O_EXCL: "OPFS has no native EXCL - pre-check then create".
OpenPrecheck(id) ==
    LET p == PathOf(id)
    IN  /\ At(id, {"open"}, "precheck")
        /\ \/ IsFile(p) /\ Throws(id, "EEXIST")
           \/ IsDir(p) /\ Throws(id, "EISDIR")
           \/ ~Exists(p) /\ Looks(id, "create")

\* What a file that is there keeps in a step of openFile.
KeptTruncatedEarly(id, step) == files[PathOf(id)] /\ ~(handler[id].message.truncate /\ step = "create")
Kept(id, step) == files[PathOf(id)] /\ ~(handler[id].message.truncate /\ step = "lock")

\* getFileHandle.
OpenCreate(id) ==
    LET p == PathOf(id)
    IN  /\ At(id, {"open"}, "create")
        /\ \/ IsDir(p) /\ Throws(id, "EISDIR")
           \/ ~Exists(p) /\ ~handler[id].message.create /\ Throws(id, "ENOENT")
           \/ ~IsDir(Parent(p)) /\ handler[id].message.create /\ Throws(id, "ENOENT")
           \/ /\ IsFile(p)
              /\ Goes(id, "lock") /\ Changes(WithFile(p, Kept(id, "create")))
           \/ /\ ~Exists(p) /\ IsDir(Parent(p)) /\ handler[id].message.create
              /\ Goes(id, "lock") /\ Changes(WithFile(p, FALSE))

\* createSyncAccessHandle, and what follows it without an await: a truncate that throws
\* leaves the access handle open, and in no entry.
OpenLock(id) ==
    LET p == PathOf(id)
    IN  /\ At(id, {"open"}, "lock")
        /\ IsFile(p) /\ ~Locked(p)
        /\ \/ /\ files' = [files EXCEPT ![p] = Kept(id, "lock")]
              /\ Registers(id, "file") /\ UNCHANGED leaked
           \/ /\ handler[id].message.truncate /\ leaked' = leaked \union {p}
              /\ AnswersError(id, "EIO") /\ UNCHANGED <<files, entries, nextId>>
        /\ UNCHANGED <<dirs, canMove>>

\* mkdir; the entry that was not there may be there when it is made.
MkdirFind(id) ==
    LET p == PathOf(id)
    IN  /\ At(id, {"mkdir"}, "find")
        /\ \/ Exists(p) /\ Throws(id, "EEXIST")
           \/ IsDir(Parent(p)) /\ ~Exists(p) /\ Looks(id, "make")

MkdirMake(id) ==
    LET p == PathOf(id)
    IN  /\ At(id, {"mkdir"}, "make")
        /\ IsDir(Parent(p)) /\ ~IsFile(p)
        /\ Answers(id, "ok", 0) /\ Changes([dirs |-> dirs \union {p}, files |-> files])

\* The first await of rmdir and unlink: what is there?
FindToRemove(id) ==
    LET p == PathOf(id)
    IN  \/ At(id, {"rmdir", "unlink"}, "find") /\ IsDir(Parent(p)) /\ ~Exists(p) /\ Throws(id, "ENOENT")
        \/ At(id, {"rmdir"}, "find") /\ IsFile(p) /\ Throws(id, "ENOTDIR")
        \/ At(id, {"rmdir"}, "find") /\ IsDir(p) /\ Looks(id, "empty")
        \/ At(id, {"unlink"}, "find") /\ IsDir(p) /\ Throws(id, "EISDIR")
        \/ At(id, {"unlink"}, "find") /\ IsFile(p) /\ Looks(id, "remove")

RmdirEmpty(id) ==
    LET p == PathOf(id)
    IN  /\ At(id, {"rmdir"}, "empty")
        /\ IsDir(p)
        /\ \/ Inside(p) # {} /\ Throws(id, "ENOTEMPTY")
           \/ Inside(p) = {} /\ Looks(id, "remove")

\* The last await of both, and of the rename fallback, removes by name.
RemoveEntry(id) ==
    LET p == PathOf(id)
    IN  /\ At(id, {"rmdir", "unlink"}, "remove") \/ At(id, {"rename"}, "copied")
        /\ Removable(p)
        /\ Answers(id, "ok", 0) /\ Changes(WithoutEntry(p))

\* rename: move() where handles have it, else file by file.
RenameNavigate(id) ==
    At(id, {"rename"}, "navigate_to") /\ Navigates(id, Parent(ToOf(id)), "find")

RenameFind(id) ==
    LET p == PathOf(id)
    IN  /\ At(id, {"rename"}, "find")
        /\ \/ IsDir(Parent(p)) /\ ~Exists(p) /\ Throws(id, "ENOENT")
           \/ Exists(p) /\ canMove /\ Looks(id, "move")
           \/ IsFile(p) /\ ~canMove /\ Looks(id, "source")
           \/ IsDir(p) /\ ~canMove /\ Throws(id, "EINVAL")

RenameMove(id) ==
    LET p == PathOf(id)
        q == ToOf(id)
        gone == Inside(p) \union {p}
        moved(r) == q \o SubSeq(r, Len(p) + 1, Len(r))
        came(S) == {moved(r) : r \in gone \intersect S}
    IN  /\ At(id, {"rename"}, "move")
        /\ Movable(p, q)
        /\ Answers(id, "ok", 0)
        /\ Changes([dirs  |-> (dirs \ gone) \union came(dirs),
                    files |-> [r \in (DOMAIN files \ gone) \union came(DOMAIN files) |->
                                 IF r \in came(DOMAIN files)
                                 THEN \E s \in DOMAIN files \intersect gone : moved(s) = r /\ files[s]
                                 ELSE files[r]]])

\* getFile; getFileHandle with create; createWritable; and arrayBuffer, write and close.
RenameSource(id) == At(id, {"rename"}, "source") /\ IsFile(PathOf(id)) /\ Looks(id, "target")

RenameTarget(id) ==
    LET q == ToOf(id)
    IN  /\ At(id, {"rename"}, "target")
        /\ IsDir(Parent(q)) /\ ~IsDir(q)
        /\ Goes(id, "writable") /\ Changes(WithFile(q, IsFile(q) /\ files[q]))

RenameWritable(id) ==
    /\ At(id, {"rename"}, "writable")
    /\ IsFile(ToOf(id)) /\ ~Opened(ToOf(id))
    /\ Looks(id, "copy")

RenameCopy(id) ==
    /\ At(id, {"rename"}, "copy")
    /\ IsFile(PathOf(id))
    /\ Goes(id, "copied") /\ Changes(WithFile(ToOf(id), files[PathOf(id)]))

HandlerStep(id) ==
    /\ \/ Navigate(id) \/ OpenDir(id) \/ OpenPrecheck(id) \/ OpenCreate(id) \/ OpenLock(id)
       \/ MkdirFind(id) \/ MkdirMake(id)
       \/ FindToRemove(id) \/ RmdirEmpty(id) \/ RemoveEntry(id)
       \/ RenameNavigate(id) \/ RenameFind(id) \/ RenameMove(id)
       \/ RenameSource(id) \/ RenameTarget(id) \/ RenameWritable(id) \/ RenameCopy(id)
       \/ IoFails(id)
    /\ UNCHANGED <<ready, queue, refused, wire, client>>

-----------------------------------------------------------------------------
(* The worker's messages.                                                    *)

\* A call on a handle is done when it is delivered: none of them awaits.  What of its
\* bytes a write that throws has written is left out.
FileCall(id, m) ==
    LET open == m.handle \in DOMAIN entries
        p    == entries[m.handle].path
    IN  /\ UNCHANGED <<dirs, canMove, leaked, nextId, handler>>
        /\ \/ ~open /\ Posts(id, m, IF m.op = "dir_close" THEN "ok" ELSE "EBADF", 0)
              /\ UNCHANGED <<files, entries>>
           \/ /\ open /\ m.op \in {"file_write", "file_truncate"}
              /\ files' = [files EXCEPT ![p] = m.op = "file_write"]
              /\ Posts(id, m, "ok", 0) /\ UNCHANGED entries
           \/ /\ open /\ m.op \in {"file_write", "file_truncate"}
              /\ Posts(id, m, "EIO", 0) /\ UNCHANGED <<files, entries>>
           \/ /\ open /\ m.op \in {"file_close", "dir_close"}
              /\ entries' = Without(entries, {m.handle})
              /\ Posts(id, m, "ok", 0) /\ UNCHANGED files

Started(requests) ==
    [i \in DOMAIN handler \union {r.id : r \in requests} |->
        IF i \in DOMAIN handler THEN handler[i]
        ELSE [message |-> (CHOOSE r \in requests : r.id = i).message, at |-> "navigate"]]

\* onMessage.
Deliver ==
    LET r == Head(wire)
    IN  /\ wire # << >>
        /\ wire' = Tail(wire)
        /\ \/ ~ready /\ queue' = Append(queue, r) /\ UNCHANGED <<opfs, entries, nextId, handler, replies>>
           \/ /\ ready /\ r.message.op \in PathOp
              /\ handler' = Started({r})
              /\ UNCHANGED <<opfs, entries, nextId, queue, replies>>
           \/ ready /\ r.message.op \notin PathOp /\ FileCall(r.id, r.message) /\ UNCHANGED queue
        /\ UNCHANGED <<ready, refused, client>>

\* The root directory is there; the queue is drained before another message is delivered.
Boot ==
    /\ ~ready /\ ~refused
    /\ ready' = TRUE
    /\ handler' = Started(Range(queue))
    /\ queue' = << >>
    /\ UNCHANGED <<opfs, entries, nextId, refused, wire, replies, client>>

\* getDirectory rejects, and nobody awaits the boot: requests go on being queued.
BootFails ==
    /\ ~ready /\ ~refused
    /\ refused' = TRUE
    /\ UNCHANGED <<opfs, entries, nextId, ready, queue, handler, wire, replies, client>>

Next ==
    \/ \E c \in Client : OnHandle(c) \/ \E m \in Request : Rpc(c, m)
    \/ Boot \/ BootFails \/ Deliver \/ Receive
    \/ \E id \in DOMAIN handler : HandlerStep(id)

Spec == Init /\ [][Next]_vars

\* The event loops deliver messages, and the browser settles what is awaited.
FairSpec ==
    /\ Spec
    /\ WF_vars(Boot \/ BootFails) /\ WF_vars(Deliver) /\ WF_vars(Receive)
    /\ \A id \in 1..MaxCalls : WF_vars(HandlerStep(id))

-----------------------------------------------------------------------------
(* Properties.                                                               *)

\* The variables have their types; OPFS is a tree whatever the handlers do to it, and
\* an access handle's file cannot go away below it.
TypeInvariant ==
    /\ dirs \subseteq Path /\ DOMAIN files \subseteq Path \ dirs
    /\ \A p \in DOMAIN files : files[p] \in BOOLEAN
    /\ \A p \in dirs \union DOMAIN files : IsDir(Parent(p))
    /\ DOMAIN entries \subseteq 1..nextId - 1
    /\ \A i \in DOMAIN entries : entries[i].type = "file" => IsFile(entries[i].path)
    /\ leaked \subseteq DOMAIN files
    /\ \A i \in DOMAIN handler : handler[i].message \in PathMessage
    /\ \A k \in DOMAIN replies : replies[k].answer \in Errno \union {"ok"}
    /\ DOMAIN pending \subseteq 1..nextRequest - 1
    /\ \A c \in Client : asked[c] \in Message \union {Nothing}

Ids(s) == {s[k].id : k \in DOMAIN s}

\* Every request that waits for an answer is in exactly one place: on its way, queued for
\* the boot, handled, or answered; and the answer is to what the one who waits asked.
OneAnswerEach ==
    /\ DOMAIN pending = Ids(wire) \union Ids(queue) \union DOMAIN handler \union Ids(replies)
    /\ Cardinality(DOMAIN pending) =
         Len(wire) + Len(queue) + Cardinality(DOMAIN handler) + Len(replies)
    /\ \A k \in DOMAIN replies : replies[k].message = asked[pending[replies[k].id]]

\* A handle that was given out denotes, as long as it is open, what was opened with it,
\* however many were opened and closed meanwhile.
HandleNamesItsFile ==
    \A h \in known : h.id \in DOMAIN entries =>
        entries[h.id] = [type |-> h.type, path |-> h.path]

Asks(m, p) ==
    \/ m.op = "unlink" /\ m.path = p
    \/ m.op = "rename" /\ m.path # m.to /\ (IsPrefix(m.path, p) \/ m.to = p)
    \/ m.op = "open" /\ m.truncate /\ m.path = p
    \/ m.op = "file_truncate" /\ entries[m.handle].path = p

\* Two calls that cost a file its bytes though nobody asked for it.  The removal of an rmdir
\* is by name, and finds a file that took the place of the directory that was looked at
\* an await ago; and without move() a file renamed onto itself is copied and removed.
RmdirFindsAFile(m, p)    == m.op = "rmdir" /\ m.path = p
RenamedOntoItself(m, p)  == m.op = "rename" /\ ~canMove /\ m.path = p /\ m.to = p

\* The bytes of a file go only in the step that answers a call which asked for just that,
\* with success, or while a rename copies another file over them; a refused open, a
\* refused remove, and whatever is done to other files leave them.  The backend does not
\* keep this in the two cases above (opfsBackend.ts:216-221 and 275-280), which are taken out.
BytesGoOnlyAsAsked ==
    [][\A p \in DOMAIN files :
         files[p] /\ ~(p \in DOMAIN files' /\ files'[p]) =>
            \/ \E i \in DOMAIN handler : handler[i].at = "copy" /\ handler[i].message.to = p
            \/ \E r \in Range(replies') :
                 /\ replies' = Append(replies, r) /\ r.answer = "ok"
                 /\ \/ Asks(r.message, p)
                    \/ RmdirFindsAFile(r.message, p) \/ RenamedOntoItself(r.message, p)]_vars

\* Every call is answered in the end: those that came before the boot, and those that end
\* in an error nobody foresaw.  A boot that was refused (opfsBackend.ts:83, which nothing
\* catches) is taken out: then no call is ever answered.
EveryCallIsAnswered == \A c \in Client : asked[c] # Nothing ~> asked[c] = Nothing \/ refused
=============================================================================
