----------------------------- MODULE ReferenceCache -----------------------------
(***************************************************************************)
(* The bounded cache of reference tokens that the equivalence runners of   *)
(* several sessions share (reference_cache.py).  A runner takes the lock   *)
(* of the directory or gives up at once; under the lock it removes what a  *)
(* dead runner left, returns the cached reference or generates it, evicts  *)
(* the oldest references until it fits, and writes it to a temporary file  *)
(* that it then renames.  A runner can die between any two of these steps: *)
(* the kernel frees its lock, its files stay.                              *)
(***************************************************************************)
EXTENDS Integers, SequencesExt, FiniteSetsExt

CONSTANTS
  Runner,      \* processes that call get_or_create
  Key,         \* digests of reference identities
  Size,        \* Size[k]: length of the JSON document of reference k
  MaxEntries,  \* 16
  MaxBytes     \* 64 MiB

ASSUME SizeAssumption == Size \in [Key -> Nat \ {0}]
ASSUME BoundAssumption == MaxEntries \in Nat \ {0} /\ MaxBytes \in Nat \ {0}

NoRunner == "no runner"

ASSUME RunnerAssumption == NoRunner \notin Runner

VARIABLES
  lock,      \* who holds the flock of .lock
  entries,   \* the *.json files by mtime, oldest first
  temps,     \* the .reference-* files
  at, key    \* per runner: the next step, and the reference it is asked for

cacheVars == <<lock, entries, temps, at, key>>

\* A file: the reference it is named after, and how much of it is written.
File == [key : Key, bytes : Nat]

CacheTypeOK == /\ lock \in Runner \cup {NoRunner}
               /\ entries \in Seq(File) /\ Len(entries) <= MaxEntries
               /\ temps \subseteq File
               /\ at \in [Runner -> {"out", "clean", "lookup", "generate", "evict",
                                     "create", "dump", "rename"}]
               /\ key \in [Runner -> Key]

CacheInit == /\ lock = NoRunner /\ entries = <<>> /\ temps = {}
             /\ at = [r \in Runner |-> "out"]
             /\ key \in [Runner -> Key]

Goto(r, step) == at' = [at EXCEPT ![r] = step]

\* The `with` block ends, by a return or by an exception.
LeaveCache(r) == Goto(r, "out") /\ lock' = NoRunner

Total(files) == FoldSeq(LAMBDA f, sum : f.bytes + sum, 0, files)
Cached(k) == \E i \in DOMAIN entries : entries[i].key = k

-----------------------------------------------------------------------------

Enter(r, k) ==
  /\ at[r] = "out" /\ lock = NoRunner
  /\ lock' = r
  /\ key' = [key EXCEPT ![r] = k] /\ Goto(r, "clean")
  /\ UNCHANGED <<entries, temps>>

\* The caller is told that the cache is busy.
Refuse(r) == at[r] = "out" /\ lock # NoRunner /\ UNCHANGED cacheVars

\* Mutant: what a dead runner left stays.
KeepLeftovers(r) ==
  /\ at[r] = "clean" /\ Goto(r, "lookup")
  /\ UNCHANGED <<lock, entries, temps, key>>

RemoveLeftovers(r) ==
  /\ at[r] = "clean" /\ Goto(r, "lookup")
  /\ temps' = {}
  /\ UNCHANGED <<lock, entries, key>>

\* A hit makes its file the newest.  The digest check refuses a torn file, and
\* the size check one that is too large.
Hit(r) ==
  /\ at[r] = "lookup" /\ LeaveCache(r)
  /\ \E i \in DOMAIN entries :
       /\ entries[i].key = key[r]
       /\ entries' = IF entries[i].bytes = Size[key[r]] /\ entries[i].bytes <= MaxBytes
                     THEN Append(RemoveAt(entries, i), entries[i])
                     ELSE entries
  /\ UNCHANGED <<temps, key>>

Miss(r) ==
  /\ at[r] = "lookup" /\ ~Cached(key[r])
  /\ Goto(r, "generate")
  /\ UNCHANGED <<lock, entries, temps, key>>

\* The model runs; then the document is measured.
Generate(r) ==
  /\ at[r] = "generate" /\ Size[key[r]] <= MaxBytes
  /\ Goto(r, "evict")
  /\ UNCHANGED <<lock, entries, temps, key>>

\* generate() raises, or its reference is larger than the whole cache.
GenerateFails(r) ==
  /\ at[r] = "generate" /\ LeaveCache(r)
  /\ UNCHANGED <<entries, temps, key>>

Full(r) == Len(entries) >= MaxEntries \/ Total(entries) + Size[key[r]] > MaxBytes

\* One round of the loop.
Evict(r) ==
  /\ at[r] = "evict"
  /\ IF entries # <<>> /\ Full(r)
     THEN entries' = Tail(entries) /\ UNCHANGED at
     ELSE Goto(r, "create") /\ UNCHANGED entries
  /\ UNCHANGED <<lock, temps, key>>

-----------------------------------------------------------------------------
(* write_json. *)

Temp(r) == [key |-> key[r], bytes |-> 0]
Dumped(r) == [key |-> key[r], bytes |-> Size[key[r]]]

Create(r) ==
  /\ at[r] = "create" /\ Goto(r, "dump")
  /\ temps' = temps \cup {Temp(r)}
  /\ UNCHANGED <<lock, entries, key>>

Dump(r) ==
  /\ at[r] = "dump" /\ Goto(r, "rename")
  /\ temps' = (temps \ {Temp(r)}) \cup {Dumped(r)}
  /\ UNCHANGED <<lock, entries, key>>

Rename(r) ==
  /\ at[r] = "rename" /\ LeaveCache(r)
  /\ temps' = temps \ {Dumped(r)}
  /\ entries' = Append(entries, Dumped(r))
  /\ UNCHANGED key

\* json.dump, fsync or replace raises: the temporary file is unlinked.
WriteFails(r) ==
  /\ at[r] \in {"dump", "rename"} /\ LeaveCache(r)
  /\ temps' = temps \ {Temp(r), Dumped(r)}
  /\ UNCHANGED <<entries, key>>

\* Mutant: the lock is a file that outlives its runner.
CrashKeepingLock(r) ==
  /\ at[r] # "out" /\ Goto(r, "out")
  /\ UNCHANGED <<lock, entries, temps, key>>

Crash(r) == /\ at[r] # "out" /\ LeaveCache(r)
            /\ UNCHANGED <<entries, temps, key>>

Step(r) == \/ RemoveLeftovers(r) \/ Hit(r) \/ Miss(r) \/ Generate(r)
           \/ GenerateFails(r) \/ Evict(r) \/ Create(r) \/ Dump(r)
           \/ Rename(r) \/ WriteFails(r)

CacheNext == \E r \in Runner : Step(r) \/ Crash(r) \/ Refuse(r) \/ \E k \in Key : Enter(r, k)

CacheSpec == CacheInit /\ [][CacheNext]_cacheVars

\* A runner that is inside goes on: the model it runs ends.
CacheFairness == \A r \in Runner : WF_cacheVars(Step(r))

FairCacheSpec == CacheSpec /\ CacheFairness

-----------------------------------------------------------------------------
(* Properties.                                                              *)

\* The directory stays within its bytes at every moment, also while a reference
\* is being written and after any number of crashes: what is cached and what
\* dead runners left count together.
WithinBytes ==
  Total(entries) + MapThenSumSet(LAMBDA f : f.bytes, temps) <= MaxBytes

\* A file with the name of a reference is the whole reference, wherever its
\* writer stopped, and there is one of each name: no runner is refused because
\* of a torn one.
EntriesAreWhole ==
  /\ \A i \in DOMAIN entries : entries[i].bytes = Size[entries[i].key]
  /\ \A i, j \in DOMAIN entries : entries[i].key = entries[j].key => i = j

\* A crash costs neither room for good nor a whole reference.
CacheIsSound == CacheTypeOK /\ WithinBytes /\ EntriesAreWhole

\* However its holder ends, the cache does not stay busy.
BusyEnds == \A r \in Runner : (lock = r) ~> (lock # r)
=============================================================================
