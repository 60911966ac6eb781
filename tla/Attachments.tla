---------------------------- MODULE Attachments ----------------------------
(***************************************************************************)
(* How a mail gets its attachments (src/core/mail_proxy/smtp/sender.py,    *)
(* _process_attachments): every attachment is fetched by a task of its own *)
(* under one semaphore and one timeout, first from the cache of            *)
(* smtp/cache.py and then from its backend (smtp/attachments.py,           *)
(* src/storage); the mail then carries each of them, or a link to it.      *)
(*                                                                         *)
(* The cache has a memory tier and a disk tier.  A disk operation runs in a *)
(* worker thread: the task that waits for it can be cancelled by its       *)
(* timeout, the thread goes on.  The file system may refuse any operation:  *)
(* what the code then catches is a miss, what it does not fails the fetch. *)
(* Contents are abstracted to the file they come from and their length: a  *)
(* file being written is empty, then whole.                                *)
(***************************************************************************)
EXTENDS Integers, FiniteSets, SequencesExt

CONSTANTS
  Files,        \* contents, each standing for its MD5 digest
  NoKey,        \* no content_md5 and no {MD5:...} marker in the name
  Size,         \* Size[f]: its length in bytes
  Subdir,       \* Subdir[f]: the first two digits of its digest
  Tenants, NoTenant,
  Protocol,     \* Protocol[t]: of its storage named as the mount, or "none"
  Large,        \* Large[t]: what large_file_config asks for, or "off"
  Msgs,
  Mails,        \* the attachments each message lists, one choice per member
  MaxParts,     \* the longest list
  PayloadTenant,\* PayloadTenant[m]: tenant_id in its payload, NoTenant if absent
  Threshold,    \* disk_threshold_kb, in bytes
  MemoryMax, DiskMax,
  LargeLimit,   \* max_size_mb, in bytes
  MaxFetches,   \* max_concurrent_attachments
  MaxTroubles   \* bounds timeouts, crashes and refusals of the file system together

\* storage_path says where it is; its digest may be announced.
Attachment == [kind : {"base64", "absolute", "mount", "url", "endpoint"},
               file : Files, key : Files \cup {NoKey}]

ASSUME AttachmentsAssumption ==
  /\ NoKey \notin Files /\ NoTenant \notin Tenants
  /\ Size \in [Files -> Nat]
  /\ Protocol \in [Tenants -> {"none", "local", "cloud"}]
  /\ Large \in [Tenants -> {"off", "warn", "reject", "rewrite"}]
  /\ \A M \in Mails : \A m \in Msgs : Len(M[m]) <= MaxParts /\ M[m] \in Seq(Attachment)
  /\ PayloadTenant \in [Msgs -> Tenants \cup {NoTenant}]
  /\ {Threshold, MemoryMax, DiskMax, LargeLimit, MaxFetches, MaxParts, MaxTroubles} \subseteq Nat

VARIABLES
  spec,      \* spec[m]: the attachments of message m
  status,    \* status[m]: "new", "fetching", "built" or "error"
  parts,     \* parts[m]: what the built mail carries
  memory,    \* MemoryCache: [entries, bytes], entries least recently used first
  disk,      \* DiskCache: its files, oldest mtime first
  dirs,      \* its subdirectories
  lock,      \* the task that holds DiskCache._lock, or {}
  fs,        \* _fs_cache of the mount: the tenant it was made for
  task,      \* task[<<m, i>>]: the fetch of the i-th attachment of m
  troubles,  \* timeouts and crashes so far
  aged,      \* ghost: some file on disk has expired
  torn,      \* ghost: keys whose file was read while, or left half, written
  refused,   \* ghost: what the file system has refused to whom
  mixed      \* ghost: messages read through the filesystem of another tenant

vars == <<spec, status, parts, memory, disk, dirs, lock, fs, task, troubles,
          aged, torn, refused, mixed>>
caches == <<memory, disk, dirs>>
ghosts == <<aged, torn, refused, mixed>>

Content == [file : Files, len : Nat]
Whole(f) == [file |-> f, len |-> Size[f]]
Entry == [key : Files, content : Content, old : BOOLEAN]
New(k, c) == [key |-> k, content |-> c, old |-> FALSE]
Nothing == [file |-> NoKey, len |-> 0]

Ids == Msgs \X (1..MaxParts)
Parts(m) == {<<m, i>> : i \in 1..Len(spec[m])}
Spec_(p) == spec[p[1]][p[2]]

\* The coroutine of a fetch, the thread it has started, what it got, why it failed;
\* plan and room belong to _ensure_space.
Task == [pc : {"idle", "wait", "unlinked", "backend", "lock", "served", "failed"},
         job : {"none", "unlink", "rmdir", "read", "evict", "open", "write"},
         content : Content \cup {Nothing}, key : Files \cup {NoKey},
         plan : Seq(Entry), room : Int, err : {"", "backend", "timeout", "cache", "disk"}]
IdleTask == [pc |-> "idle", job |-> "none", content |-> Nothing, key |-> NoKey,
             plan |-> <<>>, room |-> 0, err |-> ""]

Has(entries, k) == \E i \in DOMAIN entries : entries[i].key = k
The(entries, k) == entries[CHOOSE i \in DOMAIN entries : entries[i].key = k]
Without(entries, k) ==
  IF Has(entries, k) THEN RemoveAt(entries, CHOOSE i \in DOMAIN entries : entries[i].key = k)
  ELSE entries
Total(entries) == FoldLeft(LAMBDA n, e : n + e.content.len, 0, entries)

----------------------------------------------------------------------------
(* MemoryCache: every operation is synchronous. *)

MemoryRemove(M, k) ==
  IF Has(M.entries, k)
    THEN [entries |-> Without(M.entries, k), bytes |-> M.bytes - The(M.entries, k).content.len]
    ELSE M

\* A fault: the size of the entry that is replaced stays in the count.
MemorySetKeepsBytes(M, k, c) ==
  LET E == Without(M.entries, k)
  IN IF c.len > MemoryMax THEN M
     ELSE IF M.bytes + c.len > MemoryMax
       THEN [entries |-> <<New(k, c)>>, bytes |-> c.len]
       ELSE [entries |-> Append(E, New(k, c)), bytes |-> M.bytes + c.len]

\* set: drop the entry of that key, then the least recently used ones until it fits.
MemorySet(M, k, c) ==
  LET R == MemoryRemove(M, k)
      Freed(i) == Total(SubSeq(R.entries, 1, i))
      n == CHOOSE i \in 0..Len(R.entries) :
             /\ R.bytes - Freed(i) + c.len <= MemoryMax \/ i = Len(R.entries)
             /\ \A j \in 0..(i - 1) : R.bytes - Freed(j) + c.len > MemoryMax
  IN IF c.len > MemoryMax THEN M
     ELSE [entries |-> Append(SubSeq(R.entries, n + 1, Len(R.entries)), New(k, c)),
           bytes |-> R.bytes - Freed(n) + c.len]

Touched(M, k) == [M EXCEPT !.entries = Append(Without(M.entries, k), The(M.entries, k))]
Fresh(entries, k) == Has(entries, k) /\ ~The(entries, k).old

\* TieredCache: a content below the threshold belongs in memory.
Small(c) == c.len < Threshold
Kept(k, c) == IF Small(c) THEN MemorySet(memory, k, c) ELSE memory

----------------------------------------------------------------------------
(* AttachmentManager.fetch and the DiskCache operations it awaits. *)

Unlocked(p) == IF lock = {p} THEN {} ELSE lock

\* A fault: an exception in the locked section leaves the lock held.
UnlockedUnlessFailed(p) == lock

\* The fetch ends with an exception: of the backend, of its timeout, of the file system that
\* refuses it an operation ("disk"), or because of what others did to the cache ("cache").
Raised(p, why) == task' = [task EXCEPT ![p].pc = "failed", ![p].job = "none", ![p].err = why]
Served(p, c) == task' = [task EXCEPT ![p].pc = "served", ![p].job = "none", ![p].content = c]
GoTo(p, pc) == task' = [task EXCEPT ![p].pc = pc, ![p].job = "none"]
Submit(p, job) == task' = [task EXCEPT ![p].pc = "wait", ![p].job = job]

\* The file system refuses p an operation: no space, no permission, no free descriptor.
MoreTroubles == troubles + Cardinality(refused) < MaxTroubles
Refuse(p, op) == MoreTroubles /\ refused' = refused \cup {<<p, op>>}

Active(p) == task[p].pc \notin {"idle", "served", "failed"}
Awaited(p) == task[p].pc = "wait"

\* get: memory, then the checks of DiskCache.get up to its first await; only exists() is
\* outside its try.
Look(p) ==
  LET k == Spec_(p).key
      M == IF Has(memory.entries, k) /\ ~Fresh(memory.entries, k)
             THEN MemoryRemove(memory, k) ELSE memory
  IN /\ task[p].pc = "idle"
     /\ status[p[1]] = "fetching" /\ p \in Parts(p[1])
     /\ Cardinality({q \in Ids : Active(q)}) < MaxFetches
     /\ \/ Fresh(memory.entries, k)
           /\ memory' = Touched(memory, k)
           /\ Served(p, The(memory.entries, k).content) /\ UNCHANGED refused
        \/ ~Fresh(memory.entries, k)
           /\ memory' = M
           /\ \/ ~Has(disk, k) /\ GoTo(p, "backend") /\ UNCHANGED refused
              \/ /\ Has(disk, k) /\ UNCHANGED refused
                 /\ Submit(p, IF The(disk, k).old THEN "unlink" ELSE "read")
              \/ Refuse(p, "exists") /\ Raised(p, "disk")
     /\ UNCHANGED <<spec, status, parts, disk, dirs, lock, fs, troubles, aged, torn, mixed>>

\* DiskCache._remove of an expired file, in its thread; an error is caught and ends it.
Unlink(p) ==
  LET k == Spec_(p).key
  IN /\ task[p].job = "unlink"
     /\ \/ /\ Has(disk, k)
           /\ disk' = Without(disk, k) /\ UNCHANGED refused
           /\ GoTo(p, IF Awaited(p) THEN "unlinked" ELSE task[p].pc)
        \/ /\ IF Has(disk, k) THEN Refuse(p, "unlink") ELSE UNCHANGED refused
           /\ GoTo(p, IF Awaited(p) THEN "backend" ELSE task[p].pc) /\ UNCHANGED disk
     /\ UNCHANGED <<spec, status, parts, memory, dirs, lock, fs, troubles, aged, torn, mixed>>

\* A fault: a directory is removed with the files in it.
AnyDir(d) == d \in dirs
EmptyDir(d) == d \in dirs /\ \A i \in DOMAIN disk : Subdir[disk[i].key] # d

CheckDir(p) ==
  /\ task[p].pc = "unlinked"
  /\ IF EmptyDir(Subdir[Spec_(p).key]) THEN Submit(p, "rmdir") ELSE GoTo(p, "backend")
  /\ UNCHANGED <<spec, status, parts, caches, lock, fs, troubles, ghosts>>

Rmdir(p) ==
  LET d == Subdir[Spec_(p).key]
  IN /\ task[p].job = "rmdir"
     /\ \/ EmptyDir(d) /\ dirs' = dirs \ {d} /\ UNCHANGED refused
        \/ (IF EmptyDir(d) THEN Refuse(p, "rmdir") ELSE UNCHANGED refused) /\ UNCHANGED dirs
     /\ GoTo(p, IF Awaited(p) THEN "backend" ELSE task[p].pc)
     /\ UNCHANGED <<spec, status, parts, memory, disk, lock, fs, troubles, aged, torn, mixed>>

\* read_bytes; a file that is gone or refused is a miss, one below the threshold goes to memory.
MissOnError(p) == GoTo(p, "backend")

\* A fault: DiskCache.get does not catch the error of a file that is gone.
RaiseOnError(p) == Raised(p, "cache")
ReadMissing(p) == MissOnError(p)

Read(p) ==
  LET k == Spec_(p).key
      c == The(disk, k).content
  IN /\ task[p].job = "read"
     /\ \/ /\ IF Has(disk, k) THEN Refuse(p, "read") ELSE UNCHANGED refused
           /\ ReadMissing(p) /\ UNCHANGED <<memory, torn>>
        \/ /\ Has(disk, k) /\ UNCHANGED refused
           /\ Served(p, c)
           /\ memory' = Kept(k, c)
           /\ torn' = IF \E q \in Ids : task[q].job = "write" /\ task[q].key = k
                        THEN torn \cup {k} ELSE torn
     /\ UNCHANGED <<spec, status, parts, disk, dirs, lock, fs, troubles, aged, mixed>>

\* _get_attachment_manager_for_message: the manager of the tenant that the payload names,
\* or one without mounts and without an endpoint.
HasManager(m) == PayloadTenant[m] # NoTenant

\* StorageManager.node: the mount must be one of the tenant's.
HasMount(m) == HasManager(m) /\ Protocol[PayloadTenant[m]] # "none"

\* _parse_storage_path chooses the fetcher; these are the two that need a manager.
CanResolve(p) ==
  CASE Spec_(p).kind = "mount" -> HasMount(p[1])
    [] Spec_(p).kind = "endpoint" -> HasManager(p[1])
    [] OTHER -> TRUE

\* StorageNode reads local files itself, and all others through fsspec.
UsesFs(p) == Spec_(p).kind = "mount" /\ HasMount(p[1]) /\ Protocol[PayloadTenant[p[1]]] = "cloud"

\* StorageNode_EE._get_fs: one filesystem per mount name, made by who reads first.
FsFor(p) == IF UsesFs(p) /\ fs = NoTenant THEN PayloadTenant[p[1]] ELSE fs

\* _cloud_read_bytes: the tenant's path, with the credentials of another.
Foreign(p) == UsesFs(p) /\ FsFor(p) # PayloadTenant[p[1]]

\* The digest set() files a content under: its own.
OwnDigest(p, c) == c.file

\* A fault: it is filed under the digest the attachment announces.
AnnouncedDigest(p, c) == IF Spec_(p).key = NoKey THEN c.file ELSE Spec_(p).key
Digest(p, c) == OwnDigest(p, c)

\* TieredCache.set chooses the tier; a content too large for the disk is not kept.
Backend(p) ==
  /\ task[p].pc = "backend"
  /\ fs' = FsFor(p)
  /\ \/ Raised(p, "backend") /\ UNCHANGED <<memory, mixed>>
     \/ \E f \in IF Foreign(p) THEN Files ELSE {Spec_(p).file} :
          LET c == Whole(f)
          IN /\ CanResolve(p)
             /\ mixed' = IF Foreign(p) THEN mixed \cup {p[1]} ELSE mixed
             /\ memory' = Kept(Digest(p, c), c)
             /\ IF Small(c) \/ c.len > DiskMax
                  THEN Served(p, c)
                  ELSE task' = [task EXCEPT ![p].pc = "lock", ![p].content = c,
                                            ![p].key = Digest(p, c)]
  /\ UNCHANGED <<spec, status, parts, disk, dirs, lock, troubles, aged, torn, refused>>

\* _get_total_size walks the directories in the event loop while threads remove what it met.
Removing == \E q \in Ids : task[q].job \in {"unlink", "rmdir", "evict"}

\* A fault: the size of the new file is forgotten.
NeededNothing(p) == 0

\* How much must fit for the eviction to stop.
Needed(p) == task[p].content.len

MakeDir(p) == dirs' = dirs \cup {Subdir[task[p].key]}

\* set, up to its first await: the size of the cache, the plan of an eviction, or the directory.
EnsureSpace(p) ==
  /\ task[p].pc = "lock" /\ lock = {}
  /\ \/ Removing /\ Raised(p, "cache") /\ UNCHANGED <<dirs, lock, refused>>
     \/ Refuse(p, "set") /\ Raised(p, "disk") /\ UNCHANGED <<dirs, lock>>
     \/ /\ Total(disk) + Needed(p) <= DiskMax
        /\ MakeDir(p) /\ Submit(p, "open") /\ lock' = {p} /\ UNCHANGED refused
     \/ /\ Total(disk) + Needed(p) > DiskMax /\ disk # <<>>
        /\ task' = [task EXCEPT ![p].pc = "wait", ![p].job = "evict",
                                ![p].plan = disk, ![p].room = Total(disk)]
        /\ lock' = {p} /\ UNCHANGED <<dirs, refused>>
  /\ UNCHANGED <<spec, status, parts, memory, disk, fs, troubles, aged, torn, mixed>>

\* set has no handler of its own: leaving the locked section frees the lock.
AfterFailure(p) == Unlocked(p)

\* An operation of set raises: the fetch that still awaits it fails.
SetFails(p, why) ==
  IF Awaited(p) THEN Raised(p, why) /\ lock' = AfterFailure(p)
                ELSE GoTo(p, task[p].pc) /\ UNCHANGED lock

\* The plan goes on until there is room; then, or at its end, the directory is made (that it
\* may be refused is left to Open).
GoOn(p, room) ==
  LET enough == room + Needed(p) <= DiskMax \/ Len(task[p].plan) = 1
  IN \/ ~Awaited(p) /\ GoTo(p, task[p].pc) /\ UNCHANGED dirs
     \/ /\ Awaited(p) /\ enough
        /\ task' = [task EXCEPT ![p].job = "open", ![p].plan = <<>>, ![p].room = 0]
        /\ MakeDir(p)
     \/ /\ Awaited(p) /\ ~enough
        /\ task' = [task EXCEPT ![p].plan = Tail(@), ![p].room = room]
        /\ UNCHANGED dirs

\* One unlink of the plan; one that fails frees nothing and is passed over.
Evict(p) ==
  LET e == Head(task[p].plan)
  IN /\ task[p].job = "evict"
     /\ \/ /\ disk' = Without(disk, e.key) /\ UNCHANGED refused
           /\ GoOn(p, task[p].room - (IF Has(disk, e.key) THEN e.content.len ELSE 0))
        \/ /\ Has(disk, e.key) /\ Refuse(p, "evict") /\ UNCHANGED disk
           /\ GoOn(p, task[p].room)
     /\ UNCHANGED <<spec, status, parts, memory, lock, fs, troubles, aged, torn, mixed>>

\* write_bytes opens the file, which empties it, and then writes.
Open(p) ==
  LET k == task[p].key
  IN /\ task[p].job = "open"
     /\ \/ /\ Subdir[k] \in dirs
           /\ disk' = Append(Without(disk, k), New(k, [task[p].content EXCEPT !.len = 0]))
           /\ task' = [task EXCEPT ![p].job = "write"] /\ UNCHANGED <<lock, refused>>
        \/ /\ Subdir[k] \notin dirs
           /\ SetFails(p, "cache") /\ UNCHANGED <<disk, refused>>
        \/ Refuse(p, "open") /\ SetFails(p, "disk") /\ UNCHANGED disk
     /\ UNCHANGED <<spec, status, parts, memory, dirs, fs, troubles, aged, torn, mixed>>

\* A write that fails leaves the emptied file behind.
Write(p) ==
  LET k == task[p].key
  IN /\ task[p].job = "write"
     /\ \/ /\ disk' = [i \in DOMAIN disk |->
                        IF disk[i].key = k THEN [disk[i] EXCEPT !.content = task[p].content]
                                           ELSE disk[i]]
           /\ IF Awaited(p) THEN Served(p, task[p].content) ELSE GoTo(p, task[p].pc)
           /\ lock' = Unlocked(p) /\ UNCHANGED <<torn, refused>>
        \/ /\ Refuse(p, "write") /\ SetFails(p, "disk")
           /\ torn' = torn \cup {k} /\ UNCHANGED disk
     /\ UNCHANGED <<spec, status, parts, memory, dirs, fs, troubles, aged, mixed>>

\* wait_for cancels the fetch and frees the lock it holds; a thread that has begun goes on,
\* one still queued may be cancelled with it.
Timeout(p) ==
  /\ Active(p) /\ MoreTroubles
  /\ \E job \in {task[p].job} \cup (IF task[p].job = "write" THEN {} ELSE {"none"}) :
       task' = [task EXCEPT ![p].pc = "failed", ![p].err = "timeout",
                            ![p].job = IF job = "read" THEN "none" ELSE job]
  /\ lock' = Unlocked(p)
  /\ troubles' = troubles + 1
  /\ UNCHANGED <<spec, status, parts, caches, fs, ghosts>>

----------------------------------------------------------------------------
(* _process_attachments *)

\* gather starts one fetch per attachment.
Begin(m) ==
  /\ status[m] = "new"
  /\ status' = [status EXCEPT ![m] = "fetching"]
  /\ UNCHANGED <<spec, parts, caches, lock, fs, task, troubles, ghosts>>

Action(m, c) ==
  IF PayloadTenant[m] = NoTenant \/ c.len <= LargeLimit THEN "off" ELSE Large[PayloadTenant[m]]

\* A large content is rewritten to a link; if its upload or its URL fails it is attached.
Carried(m, c) == IF Action(m, c) = "rewrite" THEN {"linked", "attached"} ELSE {"attached"}

\* gather has ended: the first failure makes the message an error, reject too.
Assemble(m) ==
  LET got == [i \in 1..Len(spec[m]) |-> task[<<m, i>>].content]
      bad == \/ \E p \in Parts(m) : task[p].pc = "failed"
             \/ \E i \in DOMAIN got : Action(m, got[i]) = "reject"
  IN /\ status[m] = "fetching"
     /\ \A p \in Parts(m) : task[p].pc \in {"served", "failed"}
     /\ \/ bad /\ status' = [status EXCEPT ![m] = "error"] /\ UNCHANGED parts
        \/ /\ ~bad
           /\ status' = [status EXCEPT ![m] = "built"]
           /\ \E how \in [DOMAIN got -> {"attached", "linked"}] :
                /\ \A i \in DOMAIN got : how[i] \in Carried(m, got[i])
                /\ parts' = [parts EXCEPT ![m] =
                     [i \in DOMAIN got |-> [content |-> got[i], how |-> how[i]]]]
     /\ UNCHANGED <<spec, caches, lock, fs, task, troubles, ghosts>>

----------------------------------------------------------------------------
(* The environment *)

Aged(entries) == [i \in DOMAIN entries |-> [entries[i] EXCEPT !.old = TRUE]]

MemoryExpires ==
  /\ \E i \in DOMAIN memory.entries : ~memory.entries[i].old
  /\ memory' = [memory EXCEPT !.entries = Aged(@)]
  /\ UNCHANGED <<spec, status, parts, disk, dirs, lock, fs, task, troubles, ghosts>>

\* Not while a file is being written: its time to live is far longer than a write.
DiskExpires ==
  /\ \E i \in DOMAIN disk : ~disk[i].old
  /\ \A q \in Ids : task[q].job # "write"
  /\ disk' = Aged(disk)
  /\ aged' = TRUE
  /\ UNCHANGED <<spec, status, parts, memory, dirs, lock, fs, task, troubles, torn, refused, mixed>>

\* The process dies, with its threads, and is started again; what was not sent is dispatched again.
Crash ==
  /\ MoreTroubles
  /\ troubles' = troubles + 1
  /\ task' = [p \in Ids |-> IdleTask]
  /\ status' = [m \in Msgs |-> IF status[m] = "fetching" THEN "new" ELSE status[m]]
  /\ memory' = [entries |-> <<>>, bytes |-> 0]
  /\ lock' = {} /\ fs' = NoTenant
  /\ torn' = torn \cup {task[q].key : q \in {q \in Ids : task[q].job = "write"}}
  /\ UNCHANGED <<spec, parts, disk, dirs, aged, refused, mixed>>

Init ==
  /\ spec \in Mails
  /\ status = [m \in Msgs |-> "new"]
  /\ parts = [m \in Msgs |-> <<>>]
  /\ memory = [entries |-> <<>>, bytes |-> 0]
  /\ disk = <<>> /\ dirs = {} /\ lock = {} /\ fs = NoTenant
  /\ task = [p \in Ids |-> IdleTask]
  /\ troubles = 0 /\ aged = FALSE /\ torn = {} /\ refused = {} /\ mixed = {}

TaskStep(p) ==
  \/ Look(p) \/ Unlink(p) \/ CheckDir(p) \/ Rmdir(p) \/ Read(p) \/ Backend(p)
  \/ EnsureSpace(p) \/ Evict(p) \/ Open(p) \/ Write(p)

Next ==
  \/ \E p \in Ids : TaskStep(p) \/ Timeout(p)
  \/ \E m \in Msgs : Begin(m) \/ Assemble(m)
  \/ MemoryExpires \/ DiskExpires \/ Crash

Spec == Init /\ [][Next]_vars

\* Threads run and the event loop resumes what is ready; timeouts are not needed.
FairSpec ==
  /\ Spec
  /\ WF_vars(\/ \E p \in Ids : TaskStep(p)
             \/ \E m \in Msgs : Begin(m) \/ Assemble(m))

----------------------------------------------------------------------------
(* Properties *)

\* Types of the state.
TypeOK ==
  /\ status \in [Msgs -> {"new", "fetching", "built", "error"}]
  /\ task \in [Ids -> Task]
  /\ \A i \in DOMAIN disk : disk[i] \in Entry /\ Subdir[disk[i].key] \in dirs
  /\ \A i \in DOMAIN memory.entries : memory.entries[i] \in Entry
  /\ fs \in Tenants \cup {NoTenant} /\ torn \subseteq Files /\ mixed \subseteq Msgs
  /\ lock = {} \/ \E p \in Ids : lock = {p} /\ Awaited(p)

\* MemoryCache counts exactly what it holds, whatever sequence of replacements, evictions,
\* expiries and promotions from disk came before, and stays within its limit.
MemoryIsAccounted ==
  memory.bytes = Total(memory.entries) /\ memory.bytes <= MemoryMax

\* DiskCache stays within its limit: writers make room one at a time.  Only a write that
\* outlives its cancelled fetch, and so the lock, can break this, or a file that the file
\* system refuses to remove.
DiskWithinLimit ==
  troubles = 0 /\ (\A p \in Ids : <<p, "evict">> \notin refused) => Total(disk) <= DiskMax

\* A built mail carries every attachment it lists, in order, each one whole: the file it names
\* or the content of the digest it announces.  The exceptions are files read during a write or
\* left half written by a crash or by a write that failed, which later reads take for whole,
\* and mounts read through the filesystem of another tenant.
BuiltMailIsRight ==
  \A m \in Msgs : status[m] = "built" =>
    /\ Len(parts[m]) = Len(spec[m])
    /\ \A i \in DOMAIN spec[m] :
         LET s == spec[m][i] IN
         \/ parts[m][i].content = Whole(s.file)
         \/ s.key # NoKey /\ parts[m][i].content = Whole(s.key)
         \/ s.key \in torn
         \/ s.kind = "mount" /\ m \in mixed

\* Users of the cache fail no fetch of each other: whatever they evict, rewrite or leave half
\* written, a file that is gone is a miss.  Only a walk or a write that meets what another
\* thread removes, after an expiry or a cancelled eviction, raises, and this in set alone:
\* with the content at hand.  What the file system itself refuses a fetch is not meant here.
OthersFailNoFetch ==
  \A p \in Ids : task[p].err = "cache" =>
    /\ aged \/ troubles > 0
    /\ task[p].content # Nothing

\* Every mail is built or becomes an error, without the help of a timeout: neither the lock
\* of the disk cache nor the semaphore is lost on any path.
EveryBuildEnds == <>[](\A m \in Msgs : status[m] \in {"built", "error"})
============================================================================
