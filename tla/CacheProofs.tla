----------------------------- MODULE CacheProofs -----------------------------
(* The promises of the ticker cache, for any number of threads, stamps and *)
(* replacements of the file.                                               *)
EXTENDS TickerCache, TLAPS

-----------------------------------------------------------------------------
(* Every reachable state of the cache is well typed: a key is always one   *)
(* that the wrapper can compute and an index one that was on disk.         *)
THEOREM TypeCorrect == Spec => []TypeOK
<1>. USE MaxVersionsAssumption
<1>1. Init => TypeOK
  <2>. SUFFICES ASSUME Init PROVE TypeOK
    OBVIOUS
  <2>1. AbsentKey \in Key
    BY DEF Key
  <2>2. cache \in [Key -> Version] /\ key \in [Thread -> Key]
    BY <2>1 DEF Init, NoFile, Version
  <2>3. versions \in Seq(Stamp) /\ Len(versions) = 0
    BY DEF Init
  <2>4. NoFile \in Version /\ file \in 0 .. Len(versions) /\ Len(versions) <= MaxVersions
    BY <2>3 DEF Init, NoFile, Version
  <2>5. /\ pc \in [Thread -> {"idle", "stat", "lookup", "read", "store"}]
        /\ read \in [Thread -> Version] /\ result \in [Thread -> Version \cup {Missing, Broken}]
        /\ began \in [Thread -> Version] /\ floor \in [Thread -> Version]
    BY <2>4 DEF Init
  <2>. QED BY <2>2, <2>3, <2>4, <2>5 DEF Init, TypeOK
<1>2. TypeOK /\ [Next]_vars => TypeOK'
  <2>. SUFFICES ASSUME TypeOK, [Next]_vars PROVE TypeOK'
    OBVIOUS
  <2>0. \A canonical \in BOOLEAN : KeyNow(canonical) \in Key
    <3>1. AbsentKey \in Key /\ PathKey \in Key
      BY DEF Key
    <3>2. file # NoFile => versions[file] \in Stamp
      BY DEF TypeOK, NoFile
    <3>3. file # NoFile => StampKey(wrapper, versions[file]) \in Key
      BY <3>2 DEF TypeOK, Key
    <3>. QED BY <3>1, <3>3 DEF KeyNow
  <2>1. ASSUME NEW stamp \in Stamp, Replace(stamp) PROVE TypeOK'
    BY <2>1 DEF TypeOK, Replace, history
  <2>2. CASE Remove
    BY <2>2 DEF TypeOK, Remove, NoFile
  <2>3. ASSUME NEW t \in Thread, Call(t) PROVE TypeOK'
    BY <2>3 DEF TypeOK, Call, disk, Version, NoFile
  <2>4. ASSUME NEW t \in Thread, NEW outcome \in Version \cup {Missing, Broken},
               Finish(t, outcome), UNCHANGED <<key, read, raced>>,
               cache' \in [Key -> Version]
        PROVE  TypeOK'
    BY <2>4 DEF TypeOK, Finish, disk, Version, Missing, Broken
  <2>5. ASSUME NEW t \in Thread, StatFails(t) PROVE TypeOK'
    BY <2>4, <2>5 DEF TypeOK, StatFails
  <2>6. ASSUME NEW t \in Thread, Stat(t) PROVE TypeOK'
    BY <2>0, <2>6 DEF TypeOK, Stat, disk, history
  <2>7. ASSUME NEW t \in Thread, Hit(t) PROVE TypeOK'
    <3>1. cache[key[t]] \in Version
      BY DEF TypeOK
    <3>. QED BY <2>4, <2>7, <3>1 DEF TypeOK, Hit
  <2>8. ASSUME NEW t \in Thread, Miss(t) PROVE TypeOK'
    BY <2>8 DEF TypeOK, Miss, disk
  <2>9. ASSUME NEW t \in Thread, OpenFails(t) PROVE TypeOK'
    BY <2>4, <2>9 DEF TypeOK, OpenFails
  <2>10. ASSUME NEW t \in Thread, ParseFails(t) PROVE TypeOK'
    BY <2>4, <2>10 DEF TypeOK, ParseFails
  <2>11. ASSUME NEW t \in Thread, Read(t) PROVE TypeOK'
    BY <2>11 DEF TypeOK, Read, disk, history, Version
  <2>12. ASSUME NEW t \in Thread, Store(t) PROVE TypeOK'
    <3>. DEFINE index == IF wrapper = "go" /\ cache[key[t]] # NoFile
                         THEN cache[key[t]] ELSE read[t]
    <3>1. index \in Version /\ Finish(t, index) /\ UNCHANGED <<key, read, raced>>
      BY <2>12 DEF TypeOK, Store
    <3>2. cache' \in [Key -> Version]
      BY <2>12, <3>1 DEF TypeOK, Store
    <3>. QED BY <2>4, <3>1, <3>2
  <2>13. CASE UNCHANGED vars
    BY <2>13 DEF TypeOK, vars, disk, history
  <2>. QED
    BY <2>1, <2>2, <2>3, <2>5, <2>6, <2>7, <2>8, <2>9, <2>10, <2>11, <2>12, <2>13
    DEF Next, Lookup
<1>. QED BY <1>1, <1>2, PTL DEF Spec

-----------------------------------------------------------------------------
(* The wrapper of a process never changes, ... *)
LEMMA WrapperStays == [Next]_vars => wrapper' = wrapper
<1>. SUFFICES ASSUME [Next]_vars PROVE wrapper' = wrapper
  OBVIOUS
<1>1. ASSUME NEW t \in Thread, Lookup(t) PROVE wrapper' = wrapper
  <2>1. ASSUME NEW outcome, Finish(t, outcome) PROVE wrapper' = wrapper
    BY <2>1 DEF Finish
  <2>2. CASE Call(t) \/ Stat(t) \/ Miss(t) \/ Read(t)
    BY <2>2 DEF Call, Stat, Miss, Read
  <2>. QED BY <1>1, <2>1, <2>2 DEF Lookup, StatFails, Hit, OpenFails, ParseFails, Store
<1>2. ASSUME NEW stamp \in Stamp, Replace(stamp) PROVE wrapper' = wrapper
  BY <1>2 DEF Replace
<1>3. CASE Remove
  BY <1>3 DEF Remove
<1>4. CASE UNCHANGED vars
  BY <1>4 DEF vars
<1>. QED BY <1>1, <1>2, <1>3, <1>4 DEF Next

(* ... and a lookup leaves the file alone. *)
LEMMA LookupLeavesDisk == \A t \in Thread : Lookup(t) => UNCHANGED <<versions, file>>
<1>. SUFFICES ASSUME NEW t \in Thread, Lookup(t) PROVE UNCHANGED <<versions, file>>
  OBVIOUS
<1>1. ASSUME NEW outcome, Finish(t, outcome) PROVE UNCHANGED <<versions, file>>
  BY <1>1 DEF Finish, disk
<1>2. CASE Call(t) \/ Stat(t) \/ Miss(t) \/ Read(t)
  BY <1>2 DEF Call, Stat, Miss, Read, disk
<1>. QED BY <1>1, <1>2 DEF Lookup, StatFails, Hit, OpenFails, ParseFails, Store

-----------------------------------------------------------------------------
(* Python and JavaScript.  Everything a process holds was on disk, and     *)
(* what is on disk is the last version.                                    *)
Stamped == wrapper \in {"python", "javascript"}

KeyOf(i) == StampKey(wrapper, versions[i])

Bounded ==
    /\ file \in {NoFile, Len(versions)}
    /\ newest <= Len(versions)
    /\ \A k \in Key : cache[k] <= Len(versions)
    /\ \A t \in Thread :
         /\ read[t] <= Len(versions) /\ result[t] <= Len(versions)
         /\ began[t] <= Len(versions) /\ floor[t] <= Len(versions)
         /\ pc[t] = "store" => read[t] # NoFile

(* Why answers are fresh.  A call works under the key of a missing file or *)
(* of a version that came after everything known when it began; what is    *)
(* cached under the key of a version, or about to be, is no older.         *)
KeyedFromNow(t) ==
    \/ key[t] = AbsentKey
    \/ \E i \in DOMAIN versions :
         /\ key[t] = KeyOf(i)
         /\ began[t] <= i /\ floor[t] <= i
         /\ pc[t] = "store" => read[t] >= i

CacheFollows ==
    /\ \A k \in Key : cache[k] # NoFile => k = AbsentKey \/ \E i \in DOMAIN versions : k = KeyOf(i)
    /\ Distinguished =>
         \A i \in DOMAIN versions : cache[KeyOf(i)] # NoFile => cache[KeyOf(i)] >= i

NoOlder(t) == Answered(t) => result[t] >= began[t] /\ result[t] >= floor[t]

Follows ==
    Stamped =>
        /\ CacheFollows
        /\ \A t \in Thread : pc[t] \in {"lookup", "read", "store"} => KeyedFromNow(t)
        /\ Distinguished /\ ~Phantom => \A t \in Thread : NoOlder(t)

LEMMA HoldsWhatWas == Spec => []Bounded
<1>1. Init => Bounded
  BY DEF Init, Bounded, NoFile
<1>2. TypeOK /\ Bounded /\ [Next]_vars => Bounded'
  <2>. SUFFICES ASSUME TypeOK, Bounded, [Next]_vars PROVE Bounded'
    OBVIOUS
  <2>. USE DEF NoFile
  <2>0. Len(versions) \in Nat /\ newest \in Int
    BY MaxVersionsAssumption DEF TypeOK, Version
  <2>1. ASSUME NEW stamp \in Stamp, Replace(stamp) PROVE Bounded'
    <3>1. Len(versions') = Len(versions) + 1 /\ file' = Len(versions')
      BY <2>1 DEF TypeOK, Replace
    <3>2. UNCHANGED <<cache, pc, read, result, began, floor, newest>>
      BY <2>1 DEF Replace, history
    <3>3. \A k \in Key : cache[k] \in Int
      BY MaxVersionsAssumption DEF TypeOK, Version
    <3>4. \A t \in Thread : read[t] \in Int /\ result[t] \in Int /\ began[t] \in Int /\ floor[t] \in Int
      <4>. TAKE t \in Thread
      <4>1. read[t] \in Version /\ began[t] \in Version /\ floor[t] \in Version
        BY DEF TypeOK
      <4>2. result[t] \in Version \cup {Missing, Broken}
        BY DEF TypeOK
      <4>. QED BY <4>1, <4>2, MaxVersionsAssumption DEF Version, Missing, Broken
    <3>. QED BY <2>0, <3>1, <3>2, <3>3, <3>4 DEF Bounded
  <2>2. CASE Remove
    BY <2>2 DEF Remove, Bounded
  <2>3. CASE UNCHANGED vars
    BY <2>3 DEF vars, disk, history, Bounded
  <2>4. ASSUME NEW t \in Thread, Lookup(t) PROVE Bounded'
    <3>0. UNCHANGED <<versions, file>>
      BY <2>4, LookupLeavesDisk
    <3>1. ASSUME NEW outcome \in Int, outcome <= Len(versions), Finish(t, outcome),
                 UNCHANGED read, \A k \in Key : cache'[k] <= Len(versions)
          PROVE  Bounded'
      BY <3>0, <3>1, <2>0 DEF Finish, Bounded, TypeOK
    <3>2. CASE Call(t)
      BY <3>2, <3>0, <2>0 DEF Call, Bounded, TypeOK
    <3>3. CASE StatFails(t)
      BY <3>3, <3>1, <2>0 DEF StatFails, Missing, Bounded
    <3>4. CASE Stat(t)
      BY <3>4, <3>0 DEF Stat, history, Bounded
    <3>5. CASE Hit(t)
      <4>1. cache[key[t]] \in Int /\ cache[key[t]] <= Len(versions)
        BY MaxVersionsAssumption DEF TypeOK, Version, Bounded
      <4>. QED BY <3>5, <3>1, <4>1 DEF Hit, Bounded
    <3>6. CASE Miss(t)
      BY <3>6, <3>0 DEF Miss, Bounded
    <3>7. CASE OpenFails(t)
      BY <3>7, <3>1, <2>0 DEF OpenFails, Missing, Bounded
    <3>8. CASE ParseFails(t)
      BY <3>8, <3>1, <2>0 DEF ParseFails, Broken, Bounded
    <3>9. CASE Read(t)
      BY <3>9, <3>0, <2>0 DEF Read, history, Bounded, TypeOK
    <3>10. CASE Store(t)
      <4>. DEFINE index == IF wrapper = "go" /\ cache[key[t]] # NoFile
                           THEN cache[key[t]] ELSE read[t]
      <4>1. index \in Int /\ index <= Len(versions)
        BY MaxVersionsAssumption DEF TypeOK, Version, Bounded
      <4>2. cache' = [cache EXCEPT ![key[t]] = index] /\ Finish(t, index) /\ UNCHANGED read
        BY <3>10 DEF Store
      <4>3. \A k \in Key : cache'[k] <= Len(versions)
        BY <4>1, <4>2 DEF TypeOK, Bounded
      <4>. QED BY <3>1, <4>1, <4>2, <4>3
    <3>. QED BY <2>4, <3>2, <3>3, <3>4, <3>5, <3>6, <3>7, <3>8, <3>9, <3>10 DEF Lookup
  <2>. QED BY <2>1, <2>2, <2>3, <2>4 DEF Next
<1>. QED BY <1>1, <1>2, TypeCorrect, PTL DEF Spec

LEMMA Following == Spec => []Follows
<1>1. Init => Follows
  <2>. SUFFICES ASSUME Init PROVE Follows
    OBVIOUS
  <2>1. \A k \in Key : cache[k] = NoFile
    BY DEF Init
  <2>2. \A i \in DOMAIN versions : FALSE
    BY DEF Init
  <2>3. \A t \in Thread : ~Answered(t) /\ pc[t] = "idle"
    BY DEF Init, Answered, NoFile
  <2>. QED BY <2>1, <2>2, <2>3 DEF Follows, CacheFollows, NoOlder
<1>2. TypeOK /\ Bounded /\ Follows /\ [Next]_vars => Follows'
  <2>. SUFFICES ASSUME TypeOK, Bounded, Follows, [Next]_vars, Stamped, Stamped'
                PROVE  Follows'
    BY WrapperStays DEF Follows, Stamped
  <2>. USE DEF NoFile
  <2>0. wrapper' = wrapper
    BY WrapperStays
  <2>a. \A i \in DOMAIN versions : i \in Nat /\ versions[i] \in Stamp /\ KeyOf(i) \in Key /\ KeyOf(i) # AbsentKey
    <3>. SUFFICES ASSUME NEW i \in DOMAIN versions
                  PROVE  i \in Nat /\ versions[i] \in Stamp /\ KeyOf(i) \in Key /\ KeyOf(i) # AbsentKey
      OBVIOUS
    <3>1. i \in Nat /\ versions[i] \in Stamp
      BY DEF TypeOK
    <3>2. KeyOf(i) \in Key
      BY <3>1 DEF TypeOK, Key, KeyOf
    <3>3. versions[i].mtime # 0
      BY <3>1, StampAssumption
    <3>. QED BY <3>1, <3>2, <3>3 DEF KeyOf, StampKey, AbsentKey, Stamped
  <2>b. AbsentKey \in Key /\ DOMAIN versions = 1 .. Len(versions) /\ Len(versions) \in Nat
    BY DEF TypeOK, Key
  <2>c. \A k \in Key : cache[k] \in Nat /\ cache[k] <= Len(versions)
    BY MaxVersionsAssumption DEF TypeOK, Version, Bounded
  <2>d. ASSUME NEW t \in Thread
        PROVE  /\ key[t] \in Key /\ read[t] \in Nat /\ began[t] \in Nat /\ floor[t] \in Nat
               /\ began[t] <= Len(versions) /\ floor[t] <= Len(versions)
    BY MaxVersionsAssumption DEF TypeOK, Version, Bounded
  <2>1. ASSUME NEW stamp \in Stamp, Replace(stamp) PROVE Follows'
    <3>1. /\ versions' = Append(versions, stamp)
          /\ UNCHANGED <<cache, pc, key, read, result, began, floor>>
      BY <2>1 DEF Replace, history
    <3>2. /\ DOMAIN versions' = 1 .. Len(versions) + 1
          /\ \A i \in DOMAIN versions : versions'[i] = versions[i]
          /\ versions'[Len(versions) + 1] = stamp
      BY <3>1, <2>b DEF TypeOK
    <3>3. \A i \in DOMAIN versions : KeyOf(i)' = KeyOf(i) /\ i \in DOMAIN versions'
      BY <3>2, <2>0, <2>b DEF KeyOf
    <3>4. Distinguished' => Distinguished
      BY <3>3 DEF Distinguished, KeyOf
    <3>5. Distinguished' => \A i \in DOMAIN versions' :
              cache[KeyOf(i)'] # NoFile => cache[KeyOf(i)'] >= i
      <4>. SUFFICES ASSUME Distinguished', NEW i \in DOMAIN versions', cache[KeyOf(i)'] # NoFile
                    PROVE  cache[KeyOf(i)'] >= i
        OBVIOUS
      <4>1. CASE i \in DOMAIN versions
        BY <4>1, <3>3, <3>4 DEF Follows, CacheFollows
      <4>2. CASE i = Len(versions) + 1
        <5>1. KeyOf(i)' \in Key /\ KeyOf(i)' # AbsentKey
          <6>1. KeyOf(i)' = StampKey(wrapper, stamp)
            BY <4>2, <3>2, <2>0 DEF KeyOf
          <6>2. stamp.mtime # 0
            BY StampAssumption
          <6>3. KeyOf(i)' \in Key
            BY <6>1 DEF Key, TypeOK
          <6>. QED BY <6>1, <6>2, <6>3 DEF StampKey, AbsentKey, Stamped
        <5>2. PICK j \in DOMAIN versions : KeyOf(i)' = KeyOf(j)
          BY <5>1 DEF Follows, CacheFollows
        <5>3. j # i /\ KeyOf(j)' = KeyOf(i)'
          BY <5>2, <4>2, <2>b, <3>3
        <5>. QED BY <5>3, <3>3 DEF Distinguished, KeyOf
      <4>. QED BY <4>1, <4>2, <3>2, <2>b
    <3>6. CacheFollows'
      BY <3>1, <3>3, <3>5 DEF Follows, CacheFollows
    <3>7. \A t \in Thread : pc'[t] \in {"lookup", "read", "store"} => KeyedFromNow(t)'
      BY <3>1, <3>3 DEF Follows, KeyedFromNow
    <3>8. Distinguished' /\ ~Phantom' => \A t \in Thread : NoOlder(t)'
      BY <3>1, <3>4 DEF Follows, Phantom, NoOlder, Answered
    <3>. QED BY <3>6, <3>7, <3>8 DEF Follows
  <2>2. ASSUME UNCHANGED <<versions, cache, pc, key, read, result, began, floor>> PROVE Follows'
    BY <2>0, <2>2 DEF Follows, CacheFollows, KeyedFromNow, NoOlder, Answered, KeyOf,
                      Distinguished, Phantom
  <2>3. CASE Remove
    BY <2>2, <2>3 DEF Remove
  <2>4. CASE UNCHANGED vars
    BY <2>2, <2>4 DEF vars, disk, history
  <2>5. ASSUME NEW t \in Thread, Lookup(t) PROVE Follows'
    <3>0. UNCHANGED <<versions, file>>
      BY <2>5, LookupLeavesDisk
    <3>1. (Distinguished' <=> Distinguished) /\ \A i \in DOMAIN versions : KeyOf(i)' = KeyOf(i)
      BY <3>0, <2>0 DEF Distinguished, KeyOf
    \* A step that stores nothing leaves to check what it does to its thread.
    <3>2. ASSUME UNCHANGED cache,
                 pc' = [pc EXCEPT ![t] = pc'[t]], key' = [key EXCEPT ![t] = key'[t]],
                 read' = [read EXCEPT ![t] = read'[t]], result' = [result EXCEPT ![t] = result'[t]],
                 began' = [began EXCEPT ![t] = began'[t]], floor' = [floor EXCEPT ![t] = floor'[t]],
                 pc'[t] \in {"lookup", "read", "store"} => KeyedFromNow(t)',
                 Distinguished /\ ~Phantom => NoOlder(t)'
          PROVE  Follows'
      <4>1. CacheFollows' /\ (Phantom' <=> Phantom)
        BY <3>0, <3>1, <3>2 DEF Follows, CacheFollows, Phantom
      <4>2. ASSUME NEW u \in Thread, u # t
            PROVE  /\ pc'[u] = pc[u] /\ key'[u] = key[u] /\ read'[u] = read[u]
                   /\ result'[u] = result[u] /\ began'[u] = began[u] /\ floor'[u] = floor[u]
        BY <3>2, <4>2 DEF TypeOK
      <4>3. ASSUME NEW u \in Thread
            PROVE  /\ pc'[u] \in {"lookup", "read", "store"} => KeyedFromNow(u)'
                   /\ Distinguished /\ ~Phantom => NoOlder(u)'
        <5>1. CASE u = t
          BY <3>2, <5>1
        <5>2. CASE u # t
          BY <5>2, <4>2, <3>0, <3>1 DEF Follows, KeyedFromNow, NoOlder, Answered
        <5>. QED BY <5>1, <5>2
      <4>. QED BY <4>1, <4>3, <3>1 DEF Follows
    <3>3. CASE Call(t)
      BY <3>2, <3>3 DEF Call, TypeOK, NoOlder, Answered
    \* An error ends the call without an answer.
    <3>4. ASSUME NEW outcome, outcome \in {Missing, Broken}, Finish(t, outcome),
                 UNCHANGED <<cache, key, read>>
          PROVE  Follows'
      BY <3>2, <3>4 DEF Finish, TypeOK, NoOlder, Answered, Missing, Broken
    <3>5. CASE StatFails(t) \/ OpenFails(t) \/ ParseFails(t)
      BY <3>4, <3>5 DEF StatFails, OpenFails, ParseFails
    <3>6. CASE Stat(t)
      <4>1. KeyedFromNow(t)'
        <5>1. PICK canonical \in BOOLEAN : key'[t] = KeyNow(canonical)
          BY <3>6 DEF Stat, TypeOK
        <5>2. CASE file = NoFile
          BY <5>1, <5>2 DEF KeyNow, KeyedFromNow, Stamped
        <5>3. CASE file # NoFile
          <6>1. file = Len(versions) /\ file \in DOMAIN versions /\ key'[t] = KeyOf(file)
            <7>0. file = Len(versions)
              BY <5>3 DEF Bounded
            <7>1. file = Len(versions) /\ file \in 1 .. Len(versions)
              BY <7>0, <5>3, <2>b
            <7>. QED BY <7>1, <5>1, <5>3, <2>b DEF KeyNow, KeyOf
          <6>2. began'[t] = began[t] /\ floor'[t] = floor[t] /\ pc'[t] = "lookup"
            BY <3>6 DEF Stat, history, TypeOK
          <6>. QED BY <6>1, <6>2, <2>d, <3>0, <3>1 DEF KeyedFromNow
        <5>. QED BY <5>2, <5>3
      <4>. QED BY <3>2, <3>6, <4>1 DEF Stat, history, TypeOK, NoOlder, Answered
    <3>7. CASE Hit(t)
      <4>1. cache[key[t]] # NoFile /\ KeyedFromNow(t)
        BY <3>7 DEF Hit, Follows
      <4>2. Distinguished /\ ~Phantom => cache[key[t]] >= began[t] /\ cache[key[t]] >= floor[t]
        BY <4>1, <2>a, <2>c, <2>d DEF KeyedFromNow, Phantom, Follows, CacheFollows
      <4>. QED BY <3>2, <3>7, <4>2 DEF Hit, Finish, TypeOK, NoOlder
    <3>8. CASE Miss(t)
      BY <3>2, <3>0, <3>1, <3>8 DEF Miss, TypeOK, NoOlder, Answered, Follows, KeyedFromNow
    <3>9. CASE Read(t)
      <4>1. KeyedFromNow(t)'
        <5>1. KeyedFromNow(t)
          BY <3>9 DEF Read, Follows
        <5>2. read'[t] = Len(versions) /\ UNCHANGED <<key, began, floor>>
          BY <3>9 DEF Read, history, TypeOK, Bounded
        <5>. QED BY <5>1, <5>2, <3>0, <3>1, <2>b DEF KeyedFromNow
      <4>. QED BY <3>2, <3>9, <4>1 DEF Read, history, TypeOK, NoOlder, Answered
    <3>10. CASE Store(t)
      <4>1. /\ cache' = [cache EXCEPT ![key[t]] = read[t]]
            /\ Finish(t, read[t]) /\ UNCHANGED <<key, read>>
        BY <3>10 DEF Store, Stamped
      <4>2. KeyedFromNow(t) /\ pc[t] = "store"
        BY <3>10 DEF Store, Follows
      <4>3. \A k \in Key : cache'[k] = IF k = key[t] THEN read[t] ELSE cache[k]
        BY <4>1 DEF TypeOK
      <4>4. CacheFollows'
        <5>1. \A k \in Key : cache'[k] # NoFile =>
                 k = AbsentKey \/ \E i \in DOMAIN versions : k = KeyOf(i)
          BY <4>2, <4>3 DEF KeyedFromNow, Follows, CacheFollows
        <5>2. ASSUME Distinguished, NEW i \in DOMAIN versions
              PROVE  cache'[KeyOf(i)] # NoFile => cache'[KeyOf(i)] >= i
          <6>1. CASE KeyOf(i) # key[t]
            BY <6>1, <5>2, <4>3, <2>a DEF Follows, CacheFollows
          <6>2. CASE KeyOf(i) = key[t]
            <7>1. PICK j \in DOMAIN versions : key[t] = KeyOf(j) /\ read[t] >= j
              BY <6>2, <4>2, <2>a DEF KeyedFromNow
            <7>2. j = i
              BY <7>1, <6>2, <5>2 DEF Distinguished, KeyOf
            <7>. QED BY <7>1, <7>2, <6>2, <4>3, <2>a
          <6>. QED BY <6>1, <6>2
        <5>. QED BY <5>1, <5>2, <3>0, <3>1 DEF CacheFollows
      <4>5. ~Phantom' => ~Phantom /\ key[t] # AbsentKey
        <5>1. ASSUME key[t] = AbsentKey, ~Phantom' PROVE FALSE
          <6>1. read[t] = NoFile
            BY <5>1, <4>3, <2>b DEF Phantom
          <6>. QED BY <6>1, <4>2 DEF Bounded
        <5>. QED BY <5>1, <4>3, <2>b DEF Phantom
      <4>6. ASSUME NEW u \in Thread, Distinguished, ~Phantom' PROVE NoOlder(u)'
        <5>1. CASE u = t
          <6>1. read[t] >= began[t] /\ read[t] >= floor[t]
            BY <4>2, <4>5, <4>6, <2>a, <2>d DEF KeyedFromNow
          <6>. QED BY <5>1, <6>1, <4>1 DEF Finish, NoOlder, TypeOK
        <5>2. CASE u # t
          BY <5>2, <4>1, <4>5, <4>6 DEF Finish, NoOlder, Answered, Follows, TypeOK
        <5>. QED BY <5>1, <5>2
      <4>7. \A u \in Thread : pc'[u] \in {"lookup", "read", "store"} => KeyedFromNow(u)'
        BY <4>1, <3>0, <3>1 DEF Finish, TypeOK, Follows, KeyedFromNow
      <4>. QED BY <4>4, <4>6, <4>7, <3>1 DEF Follows
    <3>. QED BY <2>5, <3>3, <3>5, <3>6, <3>7, <3>8, <3>9, <3>10 DEF Lookup
  <2>. QED BY <2>1, <2>3, <2>4, <2>5 DEF Next
<1>. QED BY <1>1, <1>2, TypeCorrect, HoldsWhatWas, PTL DEF Spec

(* Python and JavaScript answer with no index older than the file was when *)
(* by_ticker was called, while their keys tell its versions apart.         *)
THEOREM AnswersAreFresh == Spec => []FreshAnswers
<1>1. Follows => FreshAnswers
  BY DEF Follows, Stamped, NoOlder, FreshAnswers
<1>. QED BY <1>1, Following, PTL

-----------------------------------------------------------------------------
(* Go, and Rust while no two calls fill the cache at once.  One slot is in *)
(* use, it is filled once, and every answer so far came from it.           *)
SingleSlot == wrapper = "go" \/ (wrapper = "rust" /\ ~raced /\ ~Phantom)

Filling(t) == pc[t] \in {"read", "store"}

FilledOnce(t) ==
    /\ floor[t] # NoFile => floor[t] = cache[PathKey]
    /\ Answered(t) => result[t] = cache[PathKey]
    /\ pc[t] \in {"lookup", "read", "store"} =>
         key[t] = PathKey \/ (wrapper = "rust" /\ key[t] = AbsentKey)
    /\ wrapper = "rust" /\ Filling(t) =>
         /\ key[t] = PathKey => cache[PathKey] = NoFile
         /\ \A u \in Thread \ {t} : ~Filling(u)

OneAnswer ==
    SingleSlot =>
        /\ newest # NoFile => newest = cache[PathKey]
        /\ \A t \in Thread : FilledOnce(t)

LEMMA AnswerIsOne == Spec => []OneAnswer
<1>1. Init => OneAnswer
  BY DEF Init, OneAnswer, FilledOnce, Filling, Answered, NoFile
<1>2. TypeOK /\ Bounded /\ OneAnswer /\ [Next]_vars => OneAnswer'
  <2>. SUFFICES ASSUME TypeOK, Bounded, OneAnswer, [Next]_vars, SingleSlot'
                PROVE  /\ newest' # NoFile => newest' = cache'[PathKey]
                       /\ \A u \in Thread : FilledOnce(u)'
    BY DEF OneAnswer, NoFile
  <2>. USE DEF NoFile
  <2>0. wrapper' = wrapper
    BY WrapperStays
  <2>a. PathKey \in Key /\ AbsentKey \in Key /\ PathKey # AbsentKey
    BY DEF Key, PathKey, AbsentKey
  <2>b. \A k \in Key : cache[k] \in Nat
    BY MaxVersionsAssumption DEF TypeOK, Version
  <2>c. newest \in Nat
    BY MaxVersionsAssumption DEF TypeOK, Version
  <2>1. ASSUME UNCHANGED <<cache, raced, newest, pc, key, result, floor>>
        PROVE  /\ newest' # NoFile => newest' = cache'[PathKey]
               /\ \A u \in Thread : FilledOnce(u)'
    BY <2>0, <2>1 DEF OneAnswer, SingleSlot, Phantom, FilledOnce, Filling, Answered
  <2>2. ASSUME NEW stamp \in Stamp, Replace(stamp)
        PROVE  UNCHANGED <<cache, raced, newest, pc, key, result, floor>>
    BY <2>2 DEF Replace, history
  <2>3. ASSUME Remove PROVE UNCHANGED <<cache, raced, newest, pc, key, result, floor>>
    BY <2>3 DEF Remove
  <2>4. ASSUME UNCHANGED vars PROVE UNCHANGED <<cache, raced, newest, pc, key, result, floor>>
    BY <2>4 DEF vars, history
  <2>5. ASSUME NEW t \in Thread, Lookup(t)
        PROVE  /\ newest' # NoFile => newest' = cache'[PathKey]
               /\ \A u \in Thread : FilledOnce(u)'
    <3>1. CASE Call(t)
      <4>1. SingleSlot
        BY <3>1, <2>0 DEF Call, SingleSlot, Phantom
      <4>. QED BY <3>1, <4>1, <2>0 DEF Call, OneAnswer, FilledOnce, Filling, Answered, TypeOK
    <3>2. ASSUME NEW outcome, outcome \in {Missing, Broken}, Finish(t, outcome),
                 UNCHANGED <<cache, key, read, raced>>
          PROVE  /\ newest' # NoFile => newest' = cache'[PathKey]
                 /\ \A u \in Thread : FilledOnce(u)'
      <4>1. SingleSlot
        BY <3>2, <2>0 DEF SingleSlot, Phantom
      <4>2. newest' = newest
        BY <3>2, <2>c DEF Finish, Missing, Broken
      <4>. QED BY <3>2, <4>1, <4>2, <2>0
               DEF Finish, OneAnswer, FilledOnce, Filling, Answered, TypeOK, Missing, Broken
    <3>3. CASE StatFails(t) \/ OpenFails(t) \/ ParseFails(t)
      BY <3>2, <3>3 DEF StatFails, OpenFails, ParseFails
    <3>4. CASE Stat(t)
      <4>1. SingleSlot
        BY <3>4, <2>0 DEF Stat, history, SingleSlot, Phantom
      <4>2. \A canonical \in BOOLEAN :
              \/ KeyNow(canonical) = PathKey
              \/ wrapper = "rust" /\ KeyNow(canonical) = AbsentKey
        BY <4>1 DEF KeyNow, StampKey, SingleSlot
      <4>. QED BY <3>4, <4>1, <4>2, <2>0
               DEF Stat, history, OneAnswer, FilledOnce, Filling, Answered, TypeOK
    <3>5. CASE Hit(t)
      <4>1. SingleSlot
        BY <3>5, <2>0 DEF Hit, SingleSlot, Phantom
      <4>2. key[t] = PathKey
        BY <3>5, <4>1 DEF Hit, SingleSlot, Phantom, OneAnswer, FilledOnce
      <4>3. newest' = cache[PathKey] /\ cache' = cache
        BY <3>5, <4>1, <4>2, <2>a, <2>b, <2>c DEF Hit, Finish, OneAnswer
      <4>. QED BY <3>5, <4>1, <4>2, <4>3, <2>0
               DEF Hit, Finish, OneAnswer, FilledOnce, Filling, Answered, TypeOK
    <3>6. CASE Miss(t)
      <4>1. SingleSlot /\ (wrapper = "rust" => \A u \in Thread \ {t} : ~Filling(u))
        BY <3>6, <2>0 DEF Miss, SingleSlot, Phantom, Filling
      <4>. QED BY <3>6, <4>1, <2>0 DEF Miss, OneAnswer, FilledOnce, Filling, Answered, TypeOK
    <3>7. CASE Read(t)
      <4>1. SingleSlot
        BY <3>7, <2>0 DEF Read, history, SingleSlot, Phantom
      <4>. QED BY <3>7, <4>1, <2>0
               DEF Read, history, OneAnswer, FilledOnce, Filling, Answered, TypeOK
    <3>8. CASE Store(t)
      <4>. DEFINE index == IF wrapper = "go" /\ cache[key[t]] # NoFile
                           THEN cache[key[t]] ELSE read[t]
      <4>1. /\ cache' = [cache EXCEPT ![key[t]] = index] /\ Finish(t, index)
            /\ UNCHANGED <<key, read, raced>> /\ pc[t] = "store"
        BY <3>8 DEF Store
      <4>2. read[t] \in Nat /\ read[t] # NoFile /\ index \in Nat /\ index # NoFile /\ key[t] \in Key
        BY <4>1, <2>b, MaxVersionsAssumption DEF TypeOK, Version, Bounded
      <4>3. SingleSlot /\ (wrapper = "rust" => key[t] # AbsentKey)
        BY <4>1, <4>2, <2>0, <2>a DEF SingleSlot, Phantom, TypeOK
      <4>4. key[t] = PathKey /\ cache'[PathKey] = index
        BY <4>1, <4>3, <2>a DEF OneAnswer, FilledOnce, TypeOK
      <4>5. cache[PathKey] # NoFile => index = cache[PathKey]
        BY <4>1, <4>3, <4>4 DEF SingleSlot, OneAnswer, FilledOnce, Filling
      <4>6. newest' = cache'[PathKey]
        BY <4>1, <4>2, <4>3, <4>4, <4>5, <2>c DEF Finish, OneAnswer
      <4>7. ASSUME NEW u \in Thread PROVE FilledOnce(u)'
        <5>1. floor'[u] # NoFile => floor'[u] = cache'[PathKey]
          BY <4>1, <4>3, <4>4, <4>5 DEF Finish, OneAnswer, FilledOnce
        <5>2. Answered(u)' => result'[u] = cache'[PathKey]
          <6>1. CASE u = t
            BY <6>1, <4>1, <4>4 DEF Finish, TypeOK
          <6>2. CASE u # t
            <7>1. Answered(u)' => Answered(u) /\ result'[u] = result[u]
              BY <6>2, <4>1 DEF Finish, TypeOK, Answered
            <7>. QED BY <7>1, <4>3, <4>4, <4>5 DEF OneAnswer, FilledOnce, Answered
          <6>. QED BY <6>1, <6>2
        <5>3. pc'[u] \in {"lookup", "read", "store"} =>
                 key'[u] = PathKey \/ (wrapper = "rust" /\ key'[u] = AbsentKey)
          BY <4>1, <4>3 DEF Finish, TypeOK, OneAnswer, FilledOnce
        <5>4. wrapper = "rust" => ~Filling(u)'
          <6>1. CASE u = t
            BY <6>1, <4>1 DEF Finish, TypeOK, Filling
          <6>2. CASE u # t
            BY <6>2, <4>1, <4>3 DEF Finish, TypeOK, OneAnswer, FilledOnce, Filling
          <6>. QED BY <6>1, <6>2
        <5>. QED BY <5>1, <5>2, <5>3, <5>4, <2>0 DEF FilledOnce
      <4>. QED BY <4>6, <4>7
    <3>. QED BY <2>5, <3>1, <3>3, <3>4, <3>5, <3>6, <3>7, <3>8 DEF Lookup
  <2>. QED BY <2>1, <2>2, <2>3, <2>4, <2>5 DEF Next
<1>. QED BY <1>1, <1>2, TypeCorrect, HoldsWhatWas, PTL DEF Spec

(* In Go every call answers with the first index that was stored.          *)
THEOREM FirstIndexIsKept == Spec => []FirstIndexStays
<1>1. OneAnswer => FirstIndexStays
  BY DEF OneAnswer, SingleSlot, FilledOnce, FirstIndexStays
<1>. QED BY <1>1, AnswerIsOne, PTL

(* No answer of any wrapper is older than one given before the call, under *)
(* the conditions each of them needs for it.                               *)
THEOREM MappingNeverGoesBack == Spec => []NeverGoesBack
<1>1. TypeOK /\ Follows /\ OneAnswer => NeverGoesBack
  <2>. SUFFICES ASSUME TypeOK, Follows, OneAnswer,
                       wrapper \in {"python", "javascript"} => Distinguished /\ ~Phantom,
                       wrapper = "rust" => ~raced /\ ~Phantom,
                       NEW t \in Thread, Answered(t)
                PROVE  result[t] >= floor[t]
    BY DEF NeverGoesBack
  <2>1. CASE Stamped
    BY <2>1 DEF Follows, Stamped, NoOlder
  <2>2. CASE ~Stamped
    <3>1. SingleSlot
      BY <2>2, WrappersAssumption DEF SingleSlot, Stamped, TypeOK
    <3>2. result[t] = cache[PathKey] /\ (floor[t] # NoFile => floor[t] = cache[PathKey])
      BY <3>1 DEF OneAnswer, FilledOnce
    <3>3. floor[t] \in Nat /\ result[t] > 0 /\ result[t] \in Int
      <4>1. result[t] \in Version \cup {Missing, Broken} /\ floor[t] \in Version
        BY DEF TypeOK
      <4>. QED BY <4>1, MaxVersionsAssumption DEF Version, Missing, Broken, Answered, NoFile
    <3>. QED BY <3>2, <3>3 DEF NoFile
  <2>. QED BY <2>1, <2>2
<1>. QED BY <1>1, TypeCorrect, Following, AnswerIsOne, PTL
=============================================================================
