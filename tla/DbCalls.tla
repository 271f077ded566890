------------------------------ MODULE DbCalls ------------------------------
(***************************************************************************)
(* What the calls on an open database answer: put(), delete(), write(),    *)
(* get(), compact() and getProperty().  They change no lifetime: options   *)
(* made for one call are freed in its finally block.                       *)
(***************************************************************************)
EXTENDS DbLifecycle

VARIABLE answer  \* the last call, whether it worked natively, and its reply

Calls == {"put", "delete", "write", "get", "compact", "getProperty"}

CallsInit ==
  /\ Init
  /\ answer = [name |-> "none", worked |-> TRUE, reply |-> "true"]

(* validate() and the conversion of the arguments throw before the try     *)
(* block.                                                                  *)
Refuse(name) ==
  /\ job = "idle" /\ Db \in held
  /\ answer' = [name |-> name, worked |-> FALSE, reply |-> "throws"]
  /\ UNCHANGED vars

(* The native call throws what DB returned; write() needs a batch that was *)
(* not freed.  delete() and write() return false from their finally.       *)
NativeCall(name, worked) ==
  /\ job = "idle" /\ Db \in held /\ isOpen
  /\ name = "write" /\ worked => held \intersect attached \intersect Batches # {}
  /\ name \in {"compact", "getProperty"} => worked
  /\ answer' = [name |-> name, worked |-> worked,
                reply |-> IF name \in {"delete", "write"} THEN "false"
                          ELSE IF ~worked THEN "throws"
                          ELSE IF name = "put" THEN "true" ELSE "value"]
  /\ UNCHANGED vars

CallsNext ==
  \/ Next /\ UNCHANGED answer
  \/ \E name \in Calls :
       Refuse(name) \/ \E worked \in BOOLEAN : NativeCall(name, worked)

CallsSpec == CallsInit /\ [][CallsNext]_<<vars, answer>>

-----------------------------------------------------------------------------
(* "@returns true if successful", "@throws Error if" it fails (main.d.ts,  *)
(* put, delete and write).                                                 *)
WritesAnswerTruly ==
  answer.name \in {"put", "delete", "write"} =>
    answer.reply = IF answer.worked THEN "true" ELSE "throws"
=============================================================================
