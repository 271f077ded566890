---------------------------- MODULE OpenOptions ----------------------------
(***************************************************************************)
(* The native options of a database (OptionsWrapper), as the constructor   *)
(* of LevelDBOptions fills them in once the module is loaded: the objects  *)
(* it owns, the raw pointers to them that LevelDB is given, and the table  *)
(* of compressors, which LevelDB searches up to its first empty slot.      *)
(*                                                                         *)
(* The constructor is one synchronous stretch of the script: no load       *)
(* settles and no call of initialize() starts before it ends.              *)
(***************************************************************************)
EXTENDS Initialize, Naturals, FiniteSets, Sequences

VARIABLES
  stage,     \* "none", the setting that is next, "ready" or "threw"
  version,   \* of each owner, how many objects it has held; 0 is none yet
  pointers   \* what m_options points at: compressors, and the rest

settings == <<stage, version, pointers>>

Compressors == {"m_none", "m_zlibRaw", "m_zlib"}
Owners == Compressors \union {"m_cache", "m_filterPolicy", "m_mcneWrapper"}

(* The object an owner holds; "default" is the environment of the process, *)
(* which is never destroyed, and "null" no object.                         *)
Held(owner) == <<owner, version[owner]>>
Default == <<"default", 0>>
Null == <<"null", 0>>

Live == {Held(o) : o \in {p \in Owners : version[p] > 0}} \union {Default, Null}

NoPointers == [compressors |-> <<>>, block_cache |-> Null,
               filter_policy |-> Null, env |-> Default]

OptionsInit ==
  /\ Init
  /\ stage = "none"
  /\ version = [o \in Owners |-> 0]
  /\ pointers = NoPointers

(* Mutants: a definition named Bad... is the next one with a bug.  No       *)
(* specification uses it; it shows that a property would notice the bug.   *)
BadPacked(writer, raw, zlib) ==  \* a slot for each, empty for a duplicate
  <<writer, IF raw = writer THEN Null ELSE raw, IF zlib = writer THEN Null ELSE zlib>>

(* m_installCompressors: from slot 0, without duplicates or gaps. *)
Added(slots, c) ==
  IF \E j \in DOMAIN slots : slots[j] = c THEN slots ELSE Append(slots, c)
Packed(writer, raw, zlib) == Added(Added(<<writer>>, raw), zlib)

(* A new object for an owner (or the same one), and the table made anew    *)
(* with that owner's object as the writer.                                 *)
Install(owner, n) ==
  /\ version' = [version EXCEPT ![owner] = n]
  /\ pointers' = [pointers EXCEPT !.compressors =
                    Packed(Held(owner)', Held("m_zlibRaw")', Held("m_zlib")')]

-----------------------------------------------------------------------------
(* new EmLDB.Options(), which throws while there is no module. *)
Construct ==
  /\ stage \in {"none", "threw"} /\ module # None
  /\ stage' = "scalars"
  /\ version' = [o \in Owners |-> IF o \in Compressors THEN 1 ELSE 0]
  /\ pointers' = [NoPointers EXCEPT !.compressors =
                    Packed(<<"m_zlibRaw", 1>>, <<"m_zlibRaw", 1>>, <<"m_zlib", 1>>)]
  /\ UNCHANGED vars

(* createIfMissing to blockRestartInterval: values, which are checked and  *)
(* copied.                                                                 *)
SetScalars ==
  /\ stage = "scalars" /\ stage' = "cache"
  /\ UNCHANGED <<version, pointers, vars>>

(* An owner that held nothing gets an object, and m_options its address.   *)
Own(owner, field) ==
  /\ version' = [version EXCEPT ![owner] = @ + 1]
  /\ pointers' = [pointers EXCEPT ![field] = Held(owner)']

SetCache ==
  /\ stage = "cache" /\ stage' = "bloom"
  /\ Own("m_cache", "block_cache") \/ UNCHANGED <<version, pointers>>
  /\ UNCHANGED vars

SetBloomFilter ==
  /\ stage = "bloom" /\ stage' = "compression"
  /\ Own("m_filterPolicy", "filter_policy") \/ UNCHANGED <<version, pointers>>
  /\ UNCHANGED vars

BadSetCompression ==  \* zlib gets its level, and the table keeps the old object
  /\ stage = "compression" /\ stage' = "mcne"
  /\ version' = [version EXCEPT !["m_zlib"] = @ + 1]
  /\ UNCHANGED <<pointers, vars>>

(* No compression given, or NONE, ZLIB or ZLIB_RAW: the last two replace   *)
(* the compressor by one of the level asked for.                           *)
SetCompression ==
  /\ stage = "compression" /\ stage' = "mcne"
  /\ \/ UNCHANGED <<version, pointers>>
     \/ Install("m_none", version["m_none"])
     \/ Install("m_zlib", version["m_zlib"] + 1)
     \/ Install("m_zlibRaw", version["m_zlibRaw"] + 1)
  /\ UNCHANGED vars

(* setMcneWrapper(true, key) or (false, ""). *)
SetMcneWrapper ==
  /\ stage = "mcne" /\ stage' = "comparator"
  /\ Own("m_mcneWrapper", "env") \/ UNCHANGED <<version, pointers>>
  /\ UNCHANGED vars

(* No comparator: the constructor returns. *)
Finish ==
  /\ stage = "comparator" /\ stage' = "ready"
  /\ UNCHANGED <<version, pointers, vars>>

(* free(): the wrapper goes, with all it owns. *)
Destroy ==
  /\ version' = [o \in Owners |-> 0]
  /\ pointers' = NoPointers
  /\ UNCHANGED vars

Building == stage \notin {"none", "threw", "ready"}

(* Any of the settings may be refused, or its native call throw. *)
Throw == Building /\ stage' = "threw" /\ Destroy

Free == stage = "ready" /\ stage' = "none" /\ Destroy

Build ==
  \/ SetScalars \/ SetCache \/ SetBloomFilter \/ SetCompression
  \/ SetMcneWrapper \/ Finish \/ Throw

OptionsNext ==
  \/ Construct \/ Build \/ Free
  \/ ~Building /\ Next /\ UNCHANGED settings

(* The constructor runs to its end by itself, and Node settles loads. *)
OptionsSpec ==
  /\ OptionsInit /\ [][OptionsNext]_<<vars, settings>>
  /\ WF_<<vars, settings>>(Build)
  /\ WF_<<vars, settings>>(~Building /\ (LoadDone \/ LoadFails) /\ UNCHANGED settings)

-----------------------------------------------------------------------------
OptionsTypeOK ==
  /\ TypeOK
  /\ stage \in {"none", "scalars", "cache", "bloom", "compression", "mcne",
                "comparator", "ready", "threw"}
  /\ version \in [Owners -> 0 .. 2]
  /\ DOMAIN pointers = DOMAIN NoPointers
  /\ Len(pointers.compressors) <= Cardinality(Compressors)

PointsAt ==
  {pointers.compressors[k] : k \in DOMAIN pointers.compressors}
    \union {pointers.block_cache, pointers.filter_policy, pointers.env}

(* Whatever is set, and wherever the constructor throws, no pointer that   *)
(* LevelDB would copy refers to an object that is gone, and what failed    *)
(* keeps nothing.                                                          *)
NoDanglingPointer ==
  /\ PointsAt \subseteq Live
  /\ stage \in {"none", "threw"} => Live = {Default, Null}

(* The compressors LevelDB finds: the slots before the first empty one.    *)
Found ==
  {pointers.compressors[k][1] : k \in
     {j \in DOMAIN pointers.compressors :
        \A l \in 1 .. j : pointers.compressors[l] # Null}}

(* "Existing zlib and raw-zlib blocks remain readable regardless of this   *)
(* choice" (main.d.ts, compression), by the compressors in use, and so are *)
(* the blocks written with the choice.                                     *)
OldBlocksReadable ==
  stage # "none" /\ stage # "threw" => {"m_zlibRaw", "m_zlib"} \subseteq Found
=============================================================================
