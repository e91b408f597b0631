----------------------------- MODULE TickerCache -----------------------------
(***************************************************************************)
(* The process-wide ticker index behind by_ticker in the four wrappers,    *)
(* with lookups that overlap and an identifiers.json that is replaced or   *)
(* removed meanwhile.  A call computes a cache key, looks it up, on a miss *)
(* reads and parses the file and stores the result; the wrappers differ in *)
(* the key and in what a store does when the key has been filled meanwhile.*)
(*                                                                         *)
(* An index is the version of the file it was parsed from.  All calls name *)
(* one file, by its canonical path or another.  A process runs one of the wrappers; the cache     *)
(* resets, which exist for tests, are left out.                            *)
(***************************************************************************)
EXTENDS Integers, Sequences, FiniteSets

CONSTANTS
    Thread,
    Wrappers,       \* the wrappers to look at
    Stamp,          \* what a file can look like: [mtime, size, bom]
    MaxVersions     \* bound on the replacements of the file

ASSUME WrappersAssumption == Wrappers \subseteq {"python", "javascript", "go", "rust"}
ASSUME StampAssumption == Stamp \subseteq [mtime : Nat \ {0}, size : Nat, bom : BOOLEAN]
ASSUME MaxVersionsAssumption == MaxVersions \in Nat

VARIABLES
    wrapper,
    versions,   \* what each version of identifiers.json looks like
    file,       \* the version on disk, or NoFile
    cache,      \* the index under each key, or NoFile
    pc, key, read,  \* per thread: the place, the key, the version parsed
    result,     \* per thread: the outcome of its last call
    began,      \* history: the version on disk when the call began
    floor,      \* history: the newest index any call had returned by then
    newest,     \* history: the newest index any call has returned
    raced       \* history: two calls were filling the cache at once

disk == <<versions, file>>
history == <<began, floor, newest, raced>>
vars == <<wrapper, disk, cache, pc, key, read, result, history>>

NoFile  == 0
Version == 0 .. MaxVersions

Missing == -1               \* the error for a missing file
Broken  == -2               \* any other error on a readable file

-----------------------------------------------------------------------------
(* Keys.  Python: path and mtime, 0.0 for a missing file.  JavaScript:     *)
(* path, mtime and size.  Go: the absolute path.  Rust: the canonical path *)
(* or, for a missing file, the path as given, which may be the same.       *)

AbsentKey == <<0, 0>>
PathKey   == <<0, 1>>

StampKey(w, stamp) ==
    CASE w = "python"     -> <<stamp.mtime, 0>>
      [] w = "javascript" -> <<stamp.mtime, stamp.size>>
      [] OTHER            -> PathKey

Key == {AbsentKey, PathKey} \cup {StampKey(w, s) : w \in Wrappers, s \in Stamp}

TypeOK ==
    /\ wrapper \in Wrappers
    /\ versions \in Seq(Stamp) /\ Len(versions) <= MaxVersions
    /\ file \in 0 .. Len(versions)
    /\ cache \in [Key -> Version]
    /\ pc \in [Thread -> {"idle", "stat", "lookup", "read", "store"}]
    /\ key \in [Thread -> Key]
    /\ read \in [Thread -> Version]
    /\ result \in [Thread -> Version \cup {Missing, Broken}]
    /\ began \in [Thread -> Version] /\ floor \in [Thread -> Version]
    /\ newest \in Version /\ raced \in BOOLEAN

Init ==
    /\ wrapper \in Wrappers
    /\ versions = << >> /\ file = NoFile
    /\ cache = [k \in Key |-> NoFile]
    /\ pc = [t \in Thread |-> "idle"]
    /\ key = [t \in Thread |-> AbsentKey] /\ read = [t \in Thread |-> NoFile]
    /\ result = [t \in Thread |-> NoFile]
    /\ began = [t \in Thread |-> NoFile] /\ floor = [t \in Thread |-> NoFile]
    /\ newest = NoFile /\ raced = FALSE

-----------------------------------------------------------------------------
(* The file, kept by another process *)

Replace(stamp) ==
    /\ Len(versions) < MaxVersions
    /\ versions' = Append(versions, stamp) /\ file' = Len(versions) + 1
    /\ UNCHANGED <<wrapper, cache, pc, key, read, result, history>>

Remove ==
    /\ file # NoFile
    /\ file' = NoFile
    /\ UNCHANGED <<wrapper, versions, cache, pc, key, read, result, began, floor, newest, raced>>

-----------------------------------------------------------------------------
(* A lookup *)

(* JavaScript runs one synchronous call at a time. *)
Call(t) ==
    /\ pc[t] = "idle"
    /\ wrapper = "javascript" => \A u \in Thread : pc[u] = "idle"
    /\ pc' = [pc EXCEPT ![t] = "stat"]
    /\ result' = [result EXCEPT ![t] = NoFile]
    /\ began' = [began EXCEPT ![t] = file]
    /\ floor' = [floor EXCEPT ![t] = newest]
    /\ UNCHANGED <<wrapper, disk, cache, key, read, newest, raced>>

(* The call ends with an index (a version) or an error. *)
Finish(t, outcome) ==
    /\ pc' = [pc EXCEPT ![t] = "idle"]
    /\ result' = [result EXCEPT ![t] = outcome]
    /\ newest' = IF outcome > newest THEN outcome ELSE newest
    /\ UNCHANGED <<wrapper, disk, began, floor>>

(* statSync throws for a missing file; the other wrappers take a key. *)
StatFails(t) ==
    /\ pc[t] = "stat" /\ wrapper = "javascript" /\ file = NoFile
    /\ Finish(t, Missing)
    /\ UNCHANGED <<cache, key, read, raced>>

(* Mutants: the missing file gets a time of its own; the key is the path,  *)
(* as it once was in JavaScript.                                           *)
KeyNowNegative(canonical) ==
    IF file # NoFile THEN StampKey(wrapper, versions[file])
    ELSE IF wrapper = "go" THEN PathKey ELSE <<-1, 0>>
KeyNowByPath(canonical) == PathKey

(* Of a missing file Rust is told a canonical path or another one. *)
KeyNow(canonical) ==
    IF file # NoFile THEN StampKey(wrapper, versions[file])
    ELSE IF wrapper = "go" \/ (wrapper = "rust" /\ canonical) THEN PathKey ELSE AbsentKey

Stat(t) ==
    /\ pc[t] = "stat" /\ ~(wrapper = "javascript" /\ file = NoFile)
    /\ \E canonical \in BOOLEAN : key' = [key EXCEPT ![t] = KeyNow(canonical)]
    /\ pc' = [pc EXCEPT ![t] = "lookup"]
    /\ UNCHANGED <<wrapper, disk, cache, read, result, history>>

Hit(t) ==
    /\ pc[t] = "lookup" /\ cache[key[t]] # NoFile
    /\ Finish(t, cache[key[t]])
    /\ UNCHANGED <<cache, key, read, raced>>

Miss(t) ==
    /\ pc[t] = "lookup" /\ cache[key[t]] = NoFile
    /\ pc' = [pc EXCEPT ![t] = "read"]
    /\ raced' = (raced \/ \E u \in Thread \ {t} : pc[u] \in {"read", "store"})
    /\ UNCHANGED <<wrapper, disk, cache, key, read, result, began, floor, newest>>

(* JavaScript assigns to a const when it strips the mark. *)
Unparsable == wrapper = "javascript" /\ versions[file].bom

OpenFails(t) ==
    /\ pc[t] = "read" /\ file = NoFile
    /\ Finish(t, Missing)
    /\ UNCHANGED <<cache, key, read, raced>>

ParseFails(t) ==
    /\ pc[t] = "read" /\ file # NoFile /\ Unparsable
    /\ Finish(t, Broken)
    /\ UNCHANGED <<cache, key, read, raced>>

Read(t) ==
    /\ pc[t] = "read"
    /\ file # NoFile /\ ~Unparsable
    /\ read' = [read EXCEPT ![t] = file]
    /\ pc' = [pc EXCEPT ![t] = "store"]
    /\ UNCHANGED <<wrapper, disk, cache, key, result, history>>

(* Mutants: Go does not look again before it stores, or returns what it    *)
(* parsed all the same.                                                    *)
StoreBlindly(t) ==
    /\ pc[t] = "store"
    /\ cache' = [cache EXCEPT ![key[t]] = read[t]]
    /\ Finish(t, read[t])
    /\ UNCHANGED <<key, read, raced>>

StoreReturningOwn(t) ==
    /\ pc[t] = "store"
    /\ cache' = IF wrapper = "go" /\ cache[key[t]] # NoFile
                THEN cache ELSE [cache EXCEPT ![key[t]] = read[t]]
    /\ Finish(t, read[t])
    /\ UNCHANGED <<key, read, raced>>

(* Go keeps and returns what another call has stored meanwhile; the others *)
(* overwrite it and return what they parsed.                               *)
Store(t) ==
    /\ pc[t] = "store"
    /\ LET index == IF wrapper = "go" /\ cache[key[t]] # NoFile
                    THEN cache[key[t]] ELSE read[t]
       IN /\ cache' = [cache EXCEPT ![key[t]] = index]
          /\ Finish(t, index)
    /\ UNCHANGED <<key, read, raced>>

Lookup(t) ==
    \/ Call(t) \/ StatFails(t) \/ Stat(t)
    \/ Hit(t) \/ Miss(t)
    \/ OpenFails(t) \/ ParseFails(t) \/ Read(t) \/ Store(t)

Next ==
    \/ \E stamp \in Stamp : Replace(stamp)
    \/ Remove
    \/ \E t \in Thread : Lookup(t)

Spec == Init /\ [][Next]_vars

-----------------------------------------------------------------------------
(* Properties *)

(* No two versions of the file look alike to the wrapper's key. *)
Distinguished ==
    \A i, j \in DOMAIN versions :
        i # j => StampKey(wrapper, versions[i]) # StampKey(wrapper, versions[j])

(* A file that appeared between the stat and the read was cached as the    *)
(* index of a missing file.                                                *)
Phantom == cache[AbsentKey] # NoFile

Answered(t) == pc[t] = "idle" /\ result[t] > NoFile

(* Python and JavaScript never answer with an index older than the file    *)
(* was when by_ticker was called, so long as the key tells versions apart. *)
FreshAnswers ==
    wrapper \in {"python", "javascript"} /\ Distinguished /\ ~Phantom =>
        \A t \in Thread : Answered(t) => result[t] >= began[t]

(* No answer is older than one that had been given before the call: the    *)
(* caller never sees the mapping go back.  In Rust this takes calls that   *)
(* do not fill the cache at the same time.                                 *)
NeverGoesBack ==
    (/\ wrapper \in {"python", "javascript"} => Distinguished /\ ~Phantom
     /\ wrapper = "rust" => ~raced /\ ~Phantom)
    => \A t \in Thread : Answered(t) => result[t] >= floor[t]

(* In Go the index that is stored first is the answer of every call for    *)
(* the life of the process, whichever calls raced to parse the file.       *)
FirstIndexStays ==
    wrapper = "go" =>
        \A t, u \in Thread : Answered(t) /\ Answered(u) => result[t] = result[u]
=============================================================================
