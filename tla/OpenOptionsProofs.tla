-------------------------- MODULE OpenOptionsProofs --------------------------
(***************************************************************************)
(* Proofs about Initialize and OpenOptions, for any calls, profiles and    *)
(* sizes: a call that resolved has the module it asked for, by itself and  *)
(* while databases are opened; and whatever options are set and wherever   *)
(* the constructor throws, LevelDB is given no pointer to an object that   *)
(* is gone, and finds both compressors.                                    *)
(***************************************************************************)
EXTENDS OpenOptions, SequenceTheorems, FiniteSetTheorems, TLAPS

(* A load has a profile, that of every call that waits for it; once there  *)
(* is a module, it is of that profile, and no call waits.                  *)
LoadInv ==
  /\ TypeOK
  /\ asked \in [Callers -> [memory : Profiles, fileWriteBuffer : Sizes \union {None}]]
  /\ promise # None => profile # None
  /\ promise = "resolved" => module = profile
  /\ \A c \in Callers :
       /\ state[c] = "waiting" => promise = "pending" /\ asked[c].memory = profile
       /\ state[c] = "resolved" => promise = "resolved" /\ asked[c].memory = profile

(* Nothing is loaded at the start.                                         *)
LEMMA LoadInit == Init => LoadInv
  BY InitializeAssumption DEF Init, LoadInv, TypeOK

(* A call of initialize() and the end of a load keep the invariant.        *)
LEMMA LoadStep == LoadInv /\ [Next]_vars => LoadInv'
<1> SUFFICES ASSUME LoadInv, [Next]_vars PROVE LoadInv'
  OBVIOUS
<1> USE InitializeAssumption DEF LoadInv, TypeOK
<1>1. ASSUME NEW c \in Callers, Refuse(c) \/ RejectOther(c) PROVE LoadInv'
  BY <1>1 DEF Refuse, RejectOther, Settle
<1>2. ASSUME NEW c \in Callers, StartLoad(c) PROVE LoadInv'
  <2>1. asked[c].memory \in Profiles /\ asked[c].fileWriteBuffer \in Sizes \union {None}
    OBVIOUS
  <2> QED
    BY <1>2, <2>1 DEF StartLoad, Settle, Conflicts
<1>3. ASSUME NEW c \in Callers, RequireThrows(c) PROVE LoadInv'
  <2>1. asked[c].memory \in Profiles
    OBVIOUS
  <2> QED
    BY <1>3, <2>1 DEF RequireThrows, Settle, Conflicts
<1>4. ASSUME NEW c \in Callers, Join(c) PROVE LoadInv'
  BY <1>4 DEF Join, Settle, Conflicts
<1>5. CASE LoadDone
  BY <1>5 DEF LoadDone, SettleWaiting
<1>6. CASE LoadFails
  BY <1>6 DEF LoadFails, SettleWaiting
<1>7. CASE UNCHANGED vars
  BY <1>7 DEF vars
<1> QED
  BY <1>1, <1>2, <1>3, <1>4, <1>5, <1>6, <1>7 DEF Next

(* The invariant says what a resolved call relies on.                      *)
LEMMA LoadSays == LoadInv => ResolvedMeansReady
  BY DEF LoadInv, ResolvedMeansReady

(* A call of initialize() that resolved got the module of the profile it   *)
(* asked for, whatever loads failed before and were retried.               *)
THEOREM CallersGetTheirProfile == Spec => []ResolvedMeansReady
  BY LoadInit, LoadStep, LoadSays, PTL DEF Spec

-----------------------------------------------------------------------------
(* Without a database no object is held; while one is built, and once it   *)
(* is, the pointers are those of the objects held.                         *)
Stages == {"none", "scalars", "cache", "bloom", "compression", "mcne",
           "comparator", "ready", "threw"}

(* The table with the object of w as the writer.                           *)
Slots(w) == Packed(Held(w), Held("m_zlibRaw"), Held("m_zlib"))

(* An owner that is set once, no sooner than it is its turn, and the       *)
(* pointer to what it holds.                                               *)
SetOnce(owner, pointer, none, sooner) ==
  \/ version[owner] = 0 /\ pointer = none
  \/ version[owner] = 1 /\ pointer = Held(owner) /\ stage \notin sooner

Uncompressed == {"scalars", "cache", "bloom", "compression"}

BuiltInv ==
  /\ \A o \in Compressors :
       version[o] \in IF stage \in Uncompressed THEN {1} ELSE {1, 2}
  /\ \E w \in Compressors : pointers.compressors = Slots(w)
  /\ SetOnce("m_cache", pointers.block_cache, Null, {"scalars", "cache"})
  /\ SetOnce("m_filterPolicy", pointers.filter_policy, Null, {"scalars", "cache", "bloom"})
  /\ SetOnce("m_mcneWrapper", pointers.env, Default, Uncompressed \union {"mcne"})

OptionsInv ==
  /\ stage \in Stages /\ version \in [Owners -> 0 .. 2]
  /\ pointers = [compressors |-> pointers.compressors,
                 block_cache |-> pointers.block_cache,
                 filter_policy |-> pointers.filter_policy, env |-> pointers.env]
  /\ IF stage \in {"none", "threw"}
       THEN version = [o \in Owners |-> 0] /\ pointers = NoPointers
       ELSE BuiltInv

(* No object is held at the start.                                         *)
LEMMA OptionsStart == OptionsInit => OptionsInv
  BY DEF OptionsInit, OptionsInv, Stages, NoPointers

(* The constructor makes the compressors and nothing else.                 *)
LEMMA ConstructInv == ASSUME Construct PROVE OptionsInv'
<1>1. /\ stage' = "scalars"
      /\ version' = [o \in Owners |-> IF o \in Compressors THEN 1 ELSE 0]
      /\ pointers' = [compressors |-> Packed(<<"m_zlibRaw", 1>>, <<"m_zlibRaw", 1>>, <<"m_zlib", 1>>),
                      block_cache |-> Null, filter_policy |-> Null, env |-> Default]
  BY DEF Construct, NoPointers
<1>2. \A o \in Compressors : version'[o] = 1
  BY <1>1 DEF Owners
<1>3. pointers'.compressors = Slots("m_zlibRaw")'
  BY <1>1, <1>2 DEF Slots, Held, Compressors
<1>4. /\ version'["m_cache"] = 0 /\ version'["m_filterPolicy"] = 0
      /\ version'["m_mcneWrapper"] = 0
  BY <1>1 DEF Owners, Compressors
<1>5. BuiltInv'
  BY <1>1, <1>2, <1>3, <1>4 DEF BuiltInv, SetOnce, Uncompressed, Compressors
<1> QED
  BY <1>1, <1>5 DEF OptionsInv, Stages

(* Where the compressors are the same the table is.                        *)
LEMMA SameSlots ==
  ASSUME \A o \in Compressors : version'[o] = version[o]
  PROVE  \A w \in Compressors : Slots(w)' = Slots(w)
  BY DEF Slots, Held, Compressors

(* A stage without a change to the objects.                                *)
LEMMA NothingSet ==
  ASSUME OptionsInv, stage \notin {"none", "threw"}, UNCHANGED <<version, pointers>>,
         \/ stage = "scalars" /\ stage' = "cache"
         \/ stage = "cache" /\ stage' = "bloom"
         \/ stage = "bloom" /\ stage' = "compression"
         \/ stage = "compression" /\ stage' = "mcne"
         \/ stage = "mcne" /\ stage' = "comparator"
         \/ stage = "comparator" /\ stage' = "ready"
         \/ stage' = stage
  PROVE  OptionsInv'
<1>1. BuiltInv
  BY DEF OptionsInv
<1>2. \A w \in Compressors : Slots(w)' = Slots(w)
  BY SameSlots
<1>3. BuiltInv'
  BY <1>1, <1>2 DEF BuiltInv, SetOnce, Held, Uncompressed
<1> QED
  BY <1>3 DEF OptionsInv, Stages

(* setCache: the object and its address together.                          *)
LEMMA SetCacheInv == ASSUME OptionsInv, SetCache PROVE OptionsInv'
<1>1. CASE UNCHANGED <<version, pointers>>
  BY <1>1, NothingSet DEF SetCache
<1>2. CASE Own("m_cache", "block_cache")
  <2>1. /\ stage = "cache" /\ stage' = "bloom" /\ BuiltInv
        /\ version \in [Owners -> 0 .. 2] /\ version["m_cache"] = 0
    BY DEF SetCache, OptionsInv, BuiltInv, SetOnce
  <2>2. version' = [version EXCEPT !["m_cache"] = 1]
    BY <1>2, <2>1 DEF Own
  <2>3. pointers' = [pointers EXCEPT !.block_cache = Held("m_cache")']
    BY <1>2 DEF Own
  <2>4. /\ version'["m_cache"] = 1 /\ version' \in [Owners -> 0 .. 2]
        /\ \A o \in Owners \ {"m_cache"} : version'[o] = version[o]
    BY <2>1, <2>2 DEF Owners
  <2>5. pointers' = [compressors |-> pointers.compressors,
                     block_cache |-> Held("m_cache")',
                     filter_policy |-> pointers.filter_policy, env |-> pointers.env]
    BY <2>3 DEF OptionsInv
  <2>6. \A w \in Compressors : Slots(w)' = Slots(w)
    BY <2>4, SameSlots DEF Owners, Compressors
  <2>7. BuiltInv'
    BY <2>1, <2>4, <2>5, <2>6 DEF BuiltInv, SetOnce, Held, Uncompressed, Owners, Compressors
  <2> QED
    BY <2>1, <2>4, <2>5, <2>7 DEF OptionsInv, Stages
<1> QED
  BY <1>1, <1>2 DEF SetCache

(* setBloomFilter, the same.                                               *)
LEMMA SetBloomFilterInv == ASSUME OptionsInv, SetBloomFilter PROVE OptionsInv'
<1>1. CASE UNCHANGED <<version, pointers>>
  BY <1>1, NothingSet DEF SetBloomFilter
<1>2. CASE Own("m_filterPolicy", "filter_policy")
  <2>1. /\ stage = "bloom" /\ stage' = "compression" /\ BuiltInv
        /\ version \in [Owners -> 0 .. 2] /\ version["m_filterPolicy"] = 0
    BY DEF SetBloomFilter, OptionsInv, BuiltInv, SetOnce
  <2>2. version' = [version EXCEPT !["m_filterPolicy"] = 1]
    BY <1>2, <2>1 DEF Own
  <2>3. pointers' = [pointers EXCEPT !.filter_policy = Held("m_filterPolicy")']
    BY <1>2 DEF Own
  <2>4. /\ version'["m_filterPolicy"] = 1 /\ version' \in [Owners -> 0 .. 2]
        /\ \A o \in Owners \ {"m_filterPolicy"} : version'[o] = version[o]
    BY <2>1, <2>2 DEF Owners
  <2>5. pointers' = [compressors |-> pointers.compressors,
                     block_cache |-> pointers.block_cache,
                     filter_policy |-> Held("m_filterPolicy")', env |-> pointers.env]
    BY <2>3 DEF OptionsInv
  <2>6. \A w \in Compressors : Slots(w)' = Slots(w)
    BY <2>4, SameSlots DEF Owners, Compressors
  <2>7. BuiltInv'
    BY <2>1, <2>4, <2>5, <2>6 DEF BuiltInv, SetOnce, Held, Uncompressed, Owners, Compressors
  <2> QED
    BY <2>1, <2>4, <2>5, <2>7 DEF OptionsInv, Stages
<1> QED
  BY <1>1, <1>2 DEF SetBloomFilter

(* setMcneWrapper, the same; without it the environment is the default.    *)
LEMMA SetMcneWrapperInv == ASSUME OptionsInv, SetMcneWrapper PROVE OptionsInv'
<1>1. CASE UNCHANGED <<version, pointers>>
  BY <1>1, NothingSet DEF SetMcneWrapper
<1>2. CASE Own("m_mcneWrapper", "env")
  <2>1. /\ stage = "mcne" /\ stage' = "comparator" /\ BuiltInv
        /\ version \in [Owners -> 0 .. 2] /\ version["m_mcneWrapper"] = 0
    BY DEF SetMcneWrapper, OptionsInv, BuiltInv, SetOnce
  <2>2. version' = [version EXCEPT !["m_mcneWrapper"] = 1]
    BY <1>2, <2>1 DEF Own
  <2>3. pointers' = [pointers EXCEPT !.env = Held("m_mcneWrapper")']
    BY <1>2 DEF Own
  <2>4. /\ version'["m_mcneWrapper"] = 1 /\ version' \in [Owners -> 0 .. 2]
        /\ \A o \in Owners \ {"m_mcneWrapper"} : version'[o] = version[o]
    BY <2>1, <2>2 DEF Owners
  <2>5. pointers' = [compressors |-> pointers.compressors,
                     block_cache |-> pointers.block_cache,
                     filter_policy |-> pointers.filter_policy, env |-> Held("m_mcneWrapper")']
    BY <2>3 DEF OptionsInv
  <2>6. \A w \in Compressors : Slots(w)' = Slots(w)
    BY <2>4, SameSlots DEF Owners, Compressors
  <2>7. BuiltInv'
    BY <2>1, <2>4, <2>5, <2>6 DEF BuiltInv, SetOnce, Held, Uncompressed, Owners, Compressors
  <2> QED
    BY <2>1, <2>4, <2>5, <2>7 DEF OptionsInv, Stages
<1> QED
  BY <1>1, <1>2 DEF SetMcneWrapper

(* A compressor of another level, and the table made anew.                 *)
LEMMA SetCompressionInv == ASSUME OptionsInv, SetCompression PROVE OptionsInv'
<1>1. CASE UNCHANGED <<version, pointers>>
  BY <1>1, NothingSet DEF SetCompression
<1>2. ASSUME NEW w \in Compressors, NEW n \in {1, 2}, Install(w, n) PROVE OptionsInv'
  <2>1. /\ stage = "compression" /\ stage' = "mcne" /\ BuiltInv
        /\ version \in [Owners -> 0 .. 2]
    BY DEF SetCompression, OptionsInv
  <2>2. /\ version'[w] = n /\ version' \in [Owners -> 0 .. 2]
        /\ \A o \in Owners \ {w} : version'[o] = version[o]
    BY <1>2, <2>1 DEF Install, Owners
  <2>3. pointers' = [compressors |-> Slots(w)',
                     block_cache |-> pointers.block_cache,
                     filter_policy |-> pointers.filter_policy, env |-> pointers.env]
    BY <1>2 DEF Install, OptionsInv, Slots
  <2>4. \A o \in Compressors : version'[o] \in {1, 2}
    BY <2>1, <2>2 DEF BuiltInv, Uncompressed, Owners
  <2>5. BuiltInv'
    BY <2>1, <2>2, <2>3, <2>4 DEF BuiltInv, SetOnce, Held, Uncompressed, Owners, Compressors
  <2> QED
    BY <2>1, <2>2, <2>3, <2>5 DEF OptionsInv, Stages
<1>3. \A w \in Compressors : version[w] = 1
  BY DEF SetCompression, OptionsInv, BuiltInv, Uncompressed
<1>4. version["m_none"] = 1 /\ version["m_zlib"] + 1 = 2 /\ version["m_zlibRaw"] + 1 = 2
  BY <1>3 DEF Compressors
<1> QED
  BY <1>1, <1>2, <1>4 DEF SetCompression, Compressors

(* Every step of the constructor and of initialize() keeps the invariant.  *)
LEMMA OptionsStep == OptionsInv /\ [OptionsNext]_<<vars, settings>> => OptionsInv'
<1> SUFFICES ASSUME OptionsInv, [OptionsNext]_<<vars, settings>> PROVE OptionsInv'
  OBVIOUS
<1>1. CASE Construct
  BY <1>1, ConstructInv
<1>2. CASE SetScalars
  BY <1>2, NothingSet DEF SetScalars
<1>3. CASE SetCache
  BY <1>3, SetCacheInv
<1>4. CASE SetBloomFilter
  BY <1>4, SetBloomFilterInv
<1>5. CASE SetCompression
  BY <1>5, SetCompressionInv
<1>6. CASE SetMcneWrapper
  BY <1>6, SetMcneWrapperInv
<1>7. CASE Finish
  BY <1>7, NothingSet DEF Finish
<1>8. CASE Throw \/ Free
  BY <1>8 DEF Throw, Free, Destroy, OptionsInv, Stages, NoPointers
<1>9. CASE UNCHANGED settings
  <2>1. UNCHANGED <<stage, version, pointers>>
    BY <1>9 DEF settings
  <2>2. CASE stage \in {"none", "threw"}
    BY <2>1, <2>2 DEF OptionsInv
  <2>3. CASE stage \notin {"none", "threw"}
    BY <2>1, <2>3, NothingSet
  <2> QED
    BY <2>2, <2>3
<1> QED
  BY <1>1, <1>2, <1>3, <1>4, <1>5, <1>6, <1>7, <1>8, <1>9
     DEF OptionsNext, Build, settings

(* The loads go on as they would without databases.                        *)
LEMMA LoadsGoOn == [OptionsNext]_<<vars, settings>> => [Next]_vars
  BY DEF OptionsNext, Build, Construct, SetScalars, SetCache, SetBloomFilter, SetCompression,
         SetMcneWrapper, Finish, Throw, Free, Destroy

(* Both invariants hold while databases are opened and modules loaded.     *)
LEMMA OptionsInvariance == OptionsSpec => [](LoadInv /\ OptionsInv)
<1>1. OptionsInit => LoadInv /\ OptionsInv
  BY OptionsStart, LoadInit DEF OptionsInit
<1>2. LoadInv /\ OptionsInv /\ [OptionsNext]_<<vars, settings>> => (LoadInv /\ OptionsInv)'
  BY OptionsStep, LoadsGoOn, LoadStep
<1> QED
  BY <1>1, <1>2, PTL DEF OptionsSpec

-----------------------------------------------------------------------------
(* A second slot.                                                          *)
LEMMA AppendToOne == \A a, b : Append(<<a>>, b) = <<a, b>>
<1> SUFFICES ASSUME NEW a, NEW b PROVE Append(<<a>>, b) = <<a, b>>
  OBVIOUS
<1> DEFINE s == Append(<<a>>, b)
<1>1. <<a>> \in Seq({a, b}) /\ Len(<<a>>) = 1 /\ <<a>>[1] = a
  OBVIOUS
<1>2. s \in Seq({a, b}) /\ Len(s) = 2 /\ s[1] = a /\ s[2] = b
  BY <1>1, AppendProperties
<1> HIDE DEF s
<1>3. s = <<s[1], s[2]>>
  BY <1>2
<1> QED
  BY <1>2, <1>3 DEF s

(* The table: the writer and those of the zlib compressors that it is not. *)
LEMMA PackedIs ==
  ASSUME NEW writer, NEW raw, NEW zlib, raw # zlib
  PROVE  Packed(writer, raw, zlib) =
           IF raw = writer THEN <<writer, zlib>>
           ELSE IF zlib = writer THEN <<writer, raw>>
           ELSE <<writer, raw, zlib>>
<1> DEFINE S == {writer, raw, zlib}
<1>1. Append(<<writer>>, raw) = <<writer, raw>> /\ Append(<<writer>>, zlib) = <<writer, zlib>>
  BY AppendToOne
<1>2. Append(<<writer, raw>>, zlib) = <<writer, raw, zlib>>
  <2> DEFINE s == Append(<<writer, raw>>, zlib)
  <2>1. <<writer, raw>> \in Seq(S) /\ Len(<<writer, raw>>) = 2
    OBVIOUS
  <2>2. /\ s \in Seq(S) /\ Len(s) = 3 /\ s[3] = zlib
        /\ s[1] = <<writer, raw>>[1] /\ s[2] = <<writer, raw>>[2]
    BY <2>1, AppendProperties
  <2> HIDE DEF s
  <2>3. s = <<s[1], s[2], s[3]>>
    BY <2>2
  <2> QED
    BY <2>2, <2>3 DEF s
<1>3. Added(<<writer>>, raw) = IF raw = writer THEN <<writer>> ELSE <<writer, raw>>
  <2>1. (\E j \in DOMAIN <<writer>> : <<writer>>[j] = raw) <=> raw = writer
    <3>1. DOMAIN <<writer>> = {1} /\ <<writer>>[1] = writer
      OBVIOUS
    <3> QED
      BY <3>1
  <2> QED
    BY <1>1, <2>1 DEF Added
<1>4. CASE raw = writer
  BY <1>1, <1>3, <1>4 DEF Packed, Added
<1>5. CASE raw # writer
  <2>1. Packed(writer, raw, zlib) = Added(<<writer, raw>>, zlib)
    BY <1>3, <1>5 DEF Packed
  <2>2. (\E j \in DOMAIN <<writer, raw>> : <<writer, raw>>[j] = zlib) <=> zlib = writer
    <3>1. /\ DOMAIN <<writer, raw>> = {1, 2}
          /\ <<writer, raw>>[1] = writer /\ <<writer, raw>>[2] = raw
      OBVIOUS
    <3> QED
      BY <3>1
  <2> QED
    BY <1>2, <1>5, <2>1, <2>2 DEF Added
<1> QED
  BY <1>4, <1>5

(* So each slot holds an object of a compressor, and both zlib compressors *)
(* have one.                                                               *)
LEMMA SlotsAre ==
  ASSUME NEW w \in Compressors
  PROVE  /\ Len(Slots(w)) \in {2, 3} /\ DOMAIN Slots(w) = 1 .. Len(Slots(w))
         /\ \A k \in DOMAIN Slots(w) : \E o \in Compressors : Slots(w)[k] = Held(o)
         /\ \A o \in {"m_zlibRaw", "m_zlib"} : \E k \in DOMAIN Slots(w) : Slots(w)[k] = Held(o)
<1>1. /\ Held("m_zlibRaw") # Held("m_zlib") /\ Held("m_none") # Held("m_zlib")
      /\ Held("m_none") # Held("m_zlibRaw")
  BY DEF Held
<1>2. Slots(w) = IF Held("m_zlibRaw") = Held(w) THEN <<Held(w), Held("m_zlib")>>
                 ELSE IF Held("m_zlib") = Held(w) THEN <<Held(w), Held("m_zlibRaw")>>
                 ELSE <<Held(w), Held("m_zlibRaw"), Held("m_zlib")>>
  BY <1>1, PackedIs DEF Slots
<1>3. Compressors = {"m_none", "m_zlibRaw", "m_zlib"}
  BY DEF Compressors
<1>4. CASE w = "m_none"
  <2>1. Slots(w) = <<Held("m_none"), Held("m_zlibRaw"), Held("m_zlib")>>
    BY <1>1, <1>2, <1>4
  <2> HIDE DEF Held, Slots
  <2> QED
    BY <1>3, <2>1
<1>5. CASE w = "m_zlibRaw"
  <2>1. Slots(w) = <<Held("m_zlibRaw"), Held("m_zlib")>>
    BY <1>1, <1>2, <1>5
  <2> QED
    BY <1>3, <2>1
<1>6. CASE w = "m_zlib"
  <2>1. Slots(w) = <<Held("m_zlib"), Held("m_zlibRaw")>>
    BY <1>1, <1>2, <1>6
  <2> QED
    BY <1>3, <2>1
<1> QED
  BY <1>3, <1>4, <1>5, <1>6

(* The state of the options is of its types; the table has a slot at most  *)
(* for each compressor, and no owner is set more than twice.               *)
THEOREM OptionsTypeCorrect == OptionsSpec => []OptionsTypeOK
<1>1. Cardinality(Compressors) = 3
  <2>1. IsFiniteSet({"m_none"}) /\ Cardinality({"m_none"}) = 1
    BY FS_Singleton
  <2>2. /\ IsFiniteSet({"m_none"} \union {"m_zlibRaw"})
        /\ Cardinality({"m_none"} \union {"m_zlibRaw"}) = 2
    BY <2>1, FS_AddElement
  <2>3. Cardinality(({"m_none"} \union {"m_zlibRaw"}) \union {"m_zlib"}) = 3
    BY <2>2, FS_AddElement
  <2>4. Compressors = ({"m_none"} \union {"m_zlibRaw"}) \union {"m_zlib"}
    BY DEF Compressors
  <2> QED
    BY <2>3, <2>4
<1>2. ASSUME LoadInv, OptionsInv PROVE OptionsTypeOK
  <2>1. DOMAIN pointers = DOMAIN NoPointers
    BY <1>2 DEF OptionsInv, NoPointers
  <2>2. Len(pointers.compressors) <= 3
    <3>1. CASE stage \in {"none", "threw"}
      BY <1>2, <3>1 DEF OptionsInv, NoPointers
    <3>2. CASE stage \notin {"none", "threw"}
      <4>1. PICK w \in Compressors : pointers.compressors = Slots(w)
        BY <1>2, <3>2 DEF OptionsInv, BuiltInv
      <4>2. Len(Slots(w)) \in {2, 3}
        BY SlotsAre
      <4>3. Len(pointers.compressors) \in {2, 3}
        BY <4>1, <4>2, Zenon
      <4> DEFINE n == Len(pointers.compressors)
      <4>4. n \in {2, 3}
        BY <4>3
      <4> HIDE DEF n
      <4>5. n <= 3
        BY <4>4
      <4> QED
        BY <4>5 DEF n
    <3> QED
      BY <3>1, <3>2
  <2> QED
    BY <1>1, <1>2, <2>1, <2>2 DEF LoadInv, OptionsInv, OptionsTypeOK, Stages
<1> QED
  BY <1>2, OptionsInvariance, PTL

(* What was not let go of: an object some owner holds.                     *)
LEMMA HeldIsLive ==
  ASSUME NEW o \in Owners, version[o] \in Nat \ {0}
  PROVE  Held(o) \in Live
  BY DEF Live

(* No pointer that LevelDB would copy refers to an object that is gone,    *)
(* whatever is set and wherever the constructor throws; and what failed    *)
(* keeps nothing.                                                          *)
THEOREM PointersLive == OptionsSpec => []NoDanglingPointer
<1>1. ASSUME OptionsInv PROVE NoDanglingPointer
  <2>1. Default \in Live /\ Null \in Live
    BY DEF Live
  <2>2. CASE stage \in {"none", "threw"}
    <3>1. version = [o \in Owners |-> 0] /\ pointers = NoPointers
      BY <1>1, <2>2 DEF OptionsInv
    <3>2. PointsAt = {Default, Null}
      BY <3>1 DEF PointsAt, NoPointers
    <3>3. Live = {Default, Null}
      BY <3>1 DEF Live
    <3> QED
      BY <3>2, <3>3 DEF NoDanglingPointer
  <2>3. CASE stage \notin {"none", "threw"}
    <3>1. BuiltInv
      BY <1>1, <2>3 DEF OptionsInv
    <3>2. \A o \in Compressors : Held(o) \in Live
      BY <3>1, HeldIsLive DEF BuiltInv, Owners
    <3>3. \A k \in DOMAIN pointers.compressors : pointers.compressors[k] \in Live
      BY <3>1, <3>2, SlotsAre DEF BuiltInv
    <3>4. {pointers.block_cache, pointers.filter_policy, pointers.env} \subseteq Live
      BY <2>1, <3>1, HeldIsLive DEF BuiltInv, SetOnce, Owners
    <3>5. PointsAt \subseteq Live
      BY <3>3, <3>4 DEF PointsAt
    <3> QED
      BY <2>3, <3>5 DEF NoDanglingPointer
  <2> QED
    BY <2>2, <2>3
<1> QED
  BY <1>1, OptionsInvariance, PTL

(* Whatever compression is chosen, LevelDB, which searches the table up to *)
(* its first empty slot, finds both zlib compressors.                      *)
THEOREM CompressorsFound == OptionsSpec => []OldBlocksReadable
<1>1. ASSUME OptionsInv PROVE OldBlocksReadable
  <2> SUFFICES ASSUME stage \notin {"none", "threw"},
                      NEW o \in {"m_zlibRaw", "m_zlib"}
               PROVE  o \in Found
    BY DEF OldBlocksReadable
  <2>1. PICK w \in Compressors : pointers.compressors = Slots(w)
    BY <1>1 DEF OptionsInv, BuiltInv
  <2>2. PICK k \in DOMAIN Slots(w) : Slots(w)[k] = Held(o)
    BY SlotsAre
  <2>3. \A l \in 1 .. k : Slots(w)[l] # Null
    <3>1. \A l \in 1 .. k : l \in DOMAIN Slots(w)
      BY SlotsAre
    <3>2. \A p \in Compressors : Held(p) # Null
      BY DEF Held, Null, Compressors
    <3> QED
      BY <3>1, <3>2, SlotsAre
  <2>4. Held(o)[1] = o
    BY DEF Held
  <2> QED
    BY <2>1, <2>2, <2>3, <2>4 DEF Found
<1> QED
  BY <1>1, OptionsInvariance, PTL

(* And a call of initialize() gets what it asked for while databases are   *)
(* opened and closed: the constructor leaves the load alone.               *)
THEOREM ProfileWhileOpening == OptionsSpec => []ResolvedMeansReady
  BY OptionsInvariance, LoadSays, PTL
=============================================================================
