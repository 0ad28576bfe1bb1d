---------------------------- MODULE ObjectStorage ----------------------------
(***************************************************************************)
(* The storage package: one interface over a directory, an S3 bucket or a  *)
(* table of content-addressed blobs, used by calls that run together.      *)
(* Source: packages/storage/src/index.ts.                                  *)
(*                                                                         *)
(* Puts and deletes are numbered in the order they start, and a put's      *)
(* number stands for the bytes and the metadata it carries.  A file has    *)
(* two blocks, each written by a step of its own; its small .meta.json is  *)
(* written in one.                                                         *)
(* The bucket and the table answer a call in one step.                     *)
(***************************************************************************)
EXTENDS Integers, Sequences, FiniteSetsExt

CONSTANTS Keys,         \* the keys of one directory
          Contents,
          Workers,      \* calls that may be under way together
          MaxWrites,    \* bound of the puts and deletes
          MaxFaults     \* bound of sources and unlinks that fail and of restarts

\* No key looks like the content id of a blob.
ASSUME StorageAssumption ==
    /\ MaxWrites \in Nat /\ MaxFaults \in Nat
    /\ \A x \in Contents : <<"cid", x>> \notin Keys

VARIABLES
    adapter,    \* what createStorage made
    made,       \* the directory exists
    file,       \* file[k]: the file a path names, 0 for none
    data,       \* data[f]: the blocks of file f, made by put f
    meta,       \* meta[k]: the put whose metadata .meta.json holds, or 0
    object,     \* object[k]: the put whose object the bucket holds, or 0
    blob,       \* blob[x]: the put that inserted the row of content x, or 0
    work,       \* work[w]: the call of worker w
    log,        \* history: every put and delete, in the order they started
    worn,       \* history: keys where writes met, or one was cut short, and no lone
                \* put with metadata has ended since
    undone,     \* history: writes that failed before they changed anything
    faults

disk == <<made, file, data, meta>>
remote == <<object, blob>>
history == <<log, worn, undone>>
storageVars == <<adapter, disk, remote, work, history, faults>>

Empty == <<0, 0>>
\* n: its number, for a write, or that of the last write before it; met: a
\* write of its key overlapped it, or the key was worn when it started.
Free == [op |-> "none", at |-> "free", key |-> "none", n |-> 0, met |-> FALSE,
         f |-> 0, got |-> Empty, own |-> 0, left |-> {}]

\* createStorage.
Adapters == {"local", "s3", "vedadb"}

StorageInit ==
    /\ adapter \in Adapters
    /\ made = FALSE
    /\ file = [k \in Keys |-> 0] /\ meta = [k \in Keys |-> 0]
    /\ data = [f \in 1 .. MaxWrites |-> Empty]
    /\ object = [k \in Keys |-> 0] /\ blob = [x \in Contents |-> 0]
    /\ work = [w \in Workers |-> Free]
    /\ log = << >> /\ worn = {} /\ undone = {} /\ faults = 0

----------------------------------------------------------------------------
(* Calls                                                                   *)

\* A put returns the content id of its bytes beside the key; later calls use
\* either.
Names == Keys \cup (IF adapter = "vedadb" THEN {<<"cid", x>> : x \in Contents} ELSE {})

Writes(op) == op \in {"put", "delete"}
Running(w) == work[w].at \notin {"free", "ok", "missing", "error"}
Meeting(k) == {w \in Workers : Running(w) /\ (work[w].op = "list" \/ work[w].key = k)}
WritersOf(k) == {w \in Meeting(k) : Writes(work[w].op)}

\* The last write of key k.
LastWrite(k) ==
    LET writes == {m \in DOMAIN log : log[m].key = k /\ m \notin undone}
    IN  IF writes = {} THEN 0 ELSE Max(writes)

StartWrite(w, r) ==
    LET n == Len(log) + 1
        k == r.key
    IN  /\ ~Running(w) /\ n <= MaxWrites
        /\ log' = Append(log, r)
        /\ work' = [v \in Workers |->
              IF v = w THEN [Free EXCEPT !.op = r.op, !.at = "new", !.key = k, !.n = n,
                                         !.met = WritersOf(k) # {}]
              ELSE IF v \in Meeting(k) THEN [work[v] EXCEPT !.met = TRUE] ELSE work[v]]
        /\ worn' = IF WritersOf(k) # {} THEN worn \cup {k} ELSE worn
        /\ UNCHANGED <<adapter, disk, remote, undone, faults>>

StartPut(w) ==
    \E k \in Keys, x \in Contents, keeps \in BOOLEAN :
        StartWrite(w, [op |-> "put", key |-> k, content |-> x, keeps |-> keeps])
StartDelete(w) == \E k \in Names : StartWrite(w, [op |-> "delete", key |-> k])

StartRead(w) ==
    /\ ~Running(w)
    /\ \E op \in {"get", "exists", "head"}, k \in Names :
          work' = [work EXCEPT ![w] = [Free EXCEPT !.op = op, !.at = "new", !.key = k,
                      !.n = LastWrite(k), !.met = WritersOf(k) # {} \/ k \in worn]]
    /\ UNCHANGED <<adapter, disk, remote, history, faults>>

StartList(w) ==
    /\ ~Running(w)
    /\ work' = [work EXCEPT ![w] = [Free EXCEPT !.op = "list", !.at = "new",
                    !.met = \E k \in Names : WritersOf(k) # {}]]
    /\ UNCHANGED <<adapter, disk, remote, history, faults>>

To(w, at) == work' = [work EXCEPT ![w].at = at]
\* A write ends; nobody reads its answer here.
Wrote(w, at) == work' = [work EXCEPT ![w] = [Free EXCEPT !.at = at]]
Ends(w, at, got, own) ==
    work' = [work EXCEPT ![w].at = at, ![w].got = got, ![w].own = own]

----------------------------------------------------------------------------
(* The directory                                                           *)

Local(w, op, at) == adapter = "local" /\ work[w].at = at /\ work[w].op = op

\* The file is opened, and emptied when it exists.
OpenForWriting(w) ==
    LET n == work[w].n
        k == work[w].key
        f == IF file[k] = 0 THEN n ELSE file[k]
    IN  /\ file' = [file EXCEPT ![k] = f]
        /\ data' = [data EXCEPT ![f] = Empty]
        /\ work' = [work EXCEPT ![w].f = f, ![w].at = "first"]
        /\ UNCHANGED <<made, meta>>

WriteBlock(w, i, at) ==
    /\ data' = [data EXCEPT ![work[w].f][i] = work[w].n]
    /\ To(w, at) /\ UNCHANGED <<made, file, meta>>

\* The metadata, if the put has any.
AfterBlocks(w) == IF log[work[w].n].keeps THEN "meta" ELSE "stat"

PutLocal(w) ==
    \/ Local(w, "put", "new") /\ made' = TRUE /\ To(w, "open") /\ UNCHANGED <<file, data, meta>>
    \/ Local(w, "put", "open") /\ OpenForWriting(w)
    \/ Local(w, "put", "first") /\ WriteBlock(w, 1, "second")
    \/ Local(w, "put", "second") /\ WriteBlock(w, 2, AfterBlocks(w))
    \/ /\ Local(w, "put", "meta") /\ meta' = [meta EXCEPT ![work[w].key] = work[w].n]
       /\ To(w, "stat") /\ UNCHANGED <<made, file, data>>
    \/ /\ Local(w, "put", "stat") /\ Wrote(w, IF file[work[w].key] = 0 THEN "error" ELSE "ok")
       /\ UNCHANGED disk

\* Mutant: a file that is not there reads as an empty one.
GetLocalEmpty(w) ==
    LET f == file[work[w].key] IN
    /\ \/ /\ Local(w, "get", "new")
          /\ work' = [work EXCEPT ![w].at = "second", ![w].f = f,
                                  ![w].got[1] = IF f = 0 THEN 0 ELSE data[f][1]]
       \/ /\ Local(w, "get", "second")
          /\ work' = [work EXCEPT ![w].at = "ok", ![w].got[2] =
                                      IF work[w].f = 0 THEN 0 ELSE data[work[w].f][2]]
    /\ UNCHANGED disk
\* The stream reads the file that the path named when it was opened.
GetLocal(w) ==
    LET f == file[work[w].key] IN
    /\ \/ Local(w, "get", "new") /\ f = 0 /\ To(w, "missing")
       \/ /\ Local(w, "get", "new") /\ f # 0
          /\ work' = [work EXCEPT ![w].at = "second", ![w].f = f, ![w].got[1] = data[f][1]]
       \/ /\ Local(w, "get", "second")
          /\ work' = [work EXCEPT ![w].at = "ok", ![w].got[2] = data[work[w].f][2]]
    /\ UNCHANGED disk

\* Mutant: the metadata is left behind.
DeleteLocalFileOnly(w) ==
    LET k == work[w].key IN
    /\ Local(w, "delete", "new") /\ Wrote(w, "ok")
    /\ file' = [file EXCEPT ![k] = 0] /\ UNCHANGED <<made, data, meta>>
DeleteLocal(w) ==
    LET k == work[w].key IN
    \/ Local(w, "delete", "new") /\ file[k] = 0 /\ Wrote(w, "ok") /\ UNCHANGED disk
    \/ /\ Local(w, "delete", "new") /\ file[k] # 0 /\ To(w, "meta")
       /\ file' = [file EXCEPT ![k] = 0] /\ UNCHANGED <<made, data, meta>>
    \/ /\ Local(w, "delete", "meta") /\ Wrote(w, "ok")
       /\ meta' = [meta EXCEPT ![k] = 0] /\ UNCHANGED <<made, file, data>>

ExistsLocal(w) ==
    /\ Local(w, "exists", "new") /\ To(w, IF file[work[w].key] = 0 THEN "missing" ELSE "ok")
    /\ UNCHANGED disk

\* stat and then the metadata.
HeadLocal(w) ==
    LET f == file[work[w].key] IN
    /\ \/ Local(w, "head", "new") /\ f = 0 /\ To(w, "missing")
       \/ /\ Local(w, "head", "new") /\ f # 0
          /\ work' = [work EXCEPT ![w].at = "meta", ![w].got = data[f]]
       \/ Local(w, "head", "meta") /\ Ends(w, "ok", work[w].got, meta[work[w].key])
    /\ UNCHANGED disk

\* Mutants: the files of the metadata are taken for objects, and keys for objects
\* when they have metadata.
EntriesAndMeta == {k \in Keys : file[k] # 0} \cup {<<"meta", k>> : k \in {j \in Keys : meta[j] # 0}}
EntriesByMeta == {k \in Keys : file[k] # 0 \/ meta[k] # 0}
Entries == {k \in Keys : file[k] # 0}

\* The entries are read once and then looked at one by one.
ListLocal(w) ==
    /\ \/ Local(w, "list", "new") /\ ~made /\ To(w, "missing")
       \/ /\ Local(w, "list", "new") /\ made
          /\ work' = [work EXCEPT ![w].at = "each", ![w].left = Entries]
       \/ Local(w, "list", "each") /\ work[w].left = {} /\ To(w, "ok")
       \/ \E k \in work[w].left :
             /\ Local(w, "list", "each")
             /\ work' = IF file[k] = 0 THEN [work EXCEPT ![w].at = "error", ![w].left = {}]
                        ELSE [work EXCEPT ![w].left = @ \ {k}]
    /\ UNCHANGED disk

----------------------------------------------------------------------------
(* The bucket                                                              *)

ServeS3(w) ==
    LET r == work[w]
        n == work[w].n
    IN  /\ adapter = "s3" /\ work[w].at = "new"
        /\ object' = CASE r.op = "put"    -> [object EXCEPT ![r.key] = n]
                       [] r.op = "delete" -> [object EXCEPT ![r.key] = 0]
                       [] OTHER           -> object
        /\ IF r.op \in {"get", "exists", "head"} /\ object[r.key] = 0 THEN To(w, "missing")
           ELSE IF r.op \in {"get", "head"}
           THEN Ends(w, "ok", <<object[r.key], object[r.key]>>,
                     IF log[object[r.key]].keeps THEN object[r.key] ELSE 0)
           ELSE IF Writes(r.op) THEN Wrote(w, "ok") ELSE To(w, "ok")
        /\ UNCHANGED blob

----------------------------------------------------------------------------
(* The table                                                               *)

\* Rows are stored under the content id with its prefix.
ComputeCid(x) == <<"cid", x>>

\* Lookups strip the prefix, which the id of a stored row has.
CidFromKey(name) == IF name \in Keys THEN name ELSE <<"hex", name[2]>>

\* ON CONFLICT (cid, bucket) DO NOTHING.
Insert(n) == [blob EXCEPT ![log[n].content] = IF @ = 0 THEN n ELSE @]

Rows(name) == {x \in Contents : blob[x] # 0 /\ ComputeCid(x) = CidFromKey(name)}

ServeBlobs(w) ==
    LET r == work[w] IN
    /\ adapter = "vedadb" /\ work[w].at = "new"
    /\ \/ r.op = "put" /\ blob' = Insert(work[w].n) /\ Wrote(w, "ok")
       \/ r.op = "delete" /\ Wrote(w, "ok") /\ blob' = [x \in Contents |->
              IF x \in Rows(r.key) THEN 0 ELSE blob[x]]
       \/ /\ r.op \in {"get", "exists", "head"} /\ UNCHANGED blob
          /\ To(w, IF Rows(r.key) = {} THEN "missing" ELSE "ok")
       \/ r.op = "list" /\ To(w, "ok") /\ UNCHANGED blob
    /\ UNCHANGED object

----------------------------------------------------------------------------
(* Faults                                                                  *)

Fault == faults < MaxFaults /\ faults' = faults + 1

\* The source of a put fails: what the directory has got of it stays there; the
\* bucket and the table have got nothing.
SourceFails(w) ==
    /\ Fault /\ Running(w) /\ work[w].op = "put"
    /\ work[w].at \in IF adapter = "local" THEN {"first", "second"} ELSE {"new"}
    /\ Wrote(w, "error")
    /\ IF adapter = "local" THEN worn' = worn \cup {work[w].key} /\ UNCHANGED undone
       ELSE undone' = undone \cup {work[w].n} /\ UNCHANGED worn
    /\ UNCHANGED <<adapter, disk, remote, log>>

\* The metadata cannot be deleted: the delete does not say so.
MetadataStays(w) ==
    /\ Fault /\ Local(w, "delete", "meta") /\ Wrote(w, "ok")
    /\ worn' = worn \cup {work[w].key}
    /\ UNCHANGED <<adapter, disk, remote, log, undone>>

\* The process ends, and the calls with it.
StorageRestart ==
    /\ Fault /\ \E w \in Workers : Running(w)
    /\ work' = [w \in Workers |-> IF Running(w) THEN [Free EXCEPT !.at = "error"] ELSE work[w]]
    /\ IF adapter = "local"
       THEN /\ worn' = worn \cup {work[w].key : w \in {v \in Workers : Running(v) /\ Writes(work[v].op)}}
            /\ UNCHANGED undone
       ELSE /\ undone' = undone \cup {work[w].n : w \in {v \in Workers : Running(v) /\ Writes(work[v].op)}}
            /\ UNCHANGED worn
    /\ UNCHANGED <<adapter, disk, remote, log>>

Step(w) ==
    /\ Running(w)
    /\ \/ /\ PutLocal(w) \/ GetLocal(w) \/ DeleteLocal(w) \/ ExistsLocal(w)
             \/ HeadLocal(w) \/ ListLocal(w)
          /\ UNCHANGED remote
       \/ (ServeS3(w) \/ ServeBlobs(w)) /\ UNCHANGED disk
    /\ worn' = IF work[w].op = "put" /\ log[work[w].n].keeps /\ work'[w].at = "ok" /\ ~work[w].met
               THEN worn \ {work[w].key} ELSE worn
    /\ UNCHANGED <<adapter, log, undone, faults>>

StorageNext ==
    \/ \E w \in Workers : \/ Step(w) \/ SourceFails(w) \/ MetadataStays(w)
                        \/ StartPut(w) \/ StartDelete(w) \/ StartRead(w) \/ StartList(w)
    \/ StorageRestart

StorageSpec == StorageInit /\ [][StorageNext]_storageVars

----------------------------------------------------------------------------
(* Properties                                                              *)

Numbers == 0 .. MaxWrites

\* Every variable has its type, and a path names a file that some put made.
StorageTypeOK ==
    /\ adapter \in Adapters /\ made \in BOOLEAN
    /\ file \in [Keys -> Numbers] /\ meta \in [Keys -> Numbers]
    /\ data \in [1 .. MaxWrites -> Numbers \X Numbers]
    /\ object \in [Keys -> Numbers] /\ blob \in [Contents -> Numbers]
    /\ work \in [Workers -> [op : {"none", "put", "delete", "get", "exists", "head", "list"},
           at : {"free", "new", "open", "first", "second", "meta", "stat", "each",
                 "ok", "missing", "error"},
           key : Names \cup {"none"}, n : Numbers, met : BOOLEAN, f : Numbers,
           got : Numbers \X Numbers, own : Numbers, left : SUBSET Keys]]
    /\ Len(log) <= MaxWrites /\ worn \subseteq Names
    /\ undone \subseteq DOMAIN log /\ faults \in 0 .. MaxFaults
    /\ \A k \in Keys : file[k] # 0 => file[k] \in DOMAIN log /\ log[file[k]].op = "put"

There(n) == n # 0 /\ log[n].op = "put"

\* What is at a key whose last write was n: nothing, or all of one put, with its
\* own metadata, or with whatever was there before when it carried none.
Holds(n, blocks, own) ==
    IF There(n) THEN blocks = <<n, n>> /\ (log[n].keeps => own = n)
    ELSE blocks = Empty /\ own = 0

\* A key at rest holds its last write, whole and with its own metadata, unless
\* writes of it met, or one was cut short by the process, its source or its disk;
\* the next lone put with metadata makes it whole again.
LastWriteIsKept ==
    \A k \in Keys : (WritersOf(k) = {} /\ k \notin worn) =>
        LET n == LastWrite(k) IN
        /\ adapter = "local" => Holds(n, IF file[k] = 0 THEN Empty ELSE data[file[k]], meta[k])
        /\ adapter = "s3" => object[k] = IF There(n) THEN n ELSE 0

\* A read that met no write of its key answers what the last write before it
\* left there: torn bytes, the metadata of another put and lists that fail on a
\* vanished file need a write that overlaps (or no put at all).
AnswersFollowWrites ==
    \A w \in Workers :
        LET r == work[w] IN
        (adapter # "vedadb" /\ ~r.met /\ r.at \in {"ok", "missing"}
            /\ r.op \in {"get", "exists", "head"})
        => /\ r.at = "ok" <=> There(r.n)
           /\ r.op # "exists" => Holds(r.n, r.got, IF r.op = "get" /\ There(r.n) THEN r.n ELSE r.own)

\* A list that found the directory fails only on a file that a write, which
\* overlaps it, took away.
ListsFailByWrites ==
    \A w \in Workers : (work[w].op = "list" /\ work[w].at = "error") => work[w].met

\* What holds of the objects, and of what a read or a listing answers of them.
StorageInv ==
    /\ StorageTypeOK
    /\ LastWriteIsKept
    /\ AnswersFollowWrites
    /\ ListsFailByWrites
=============================================================================
