------------------------------ MODULE Settings ------------------------------
(***************************************************************************)
(* One document of settings: that of the AI, which the store keeps         *)
(* (internal/web/api_ai.go), or config.json (internal/web/api_admin.go).   *)
(* A request reads the whole document, changes the field it names, and     *)
(* stores the whole, with nothing held in between.                         *)
(*                                                                         *)
(* The values are those that the handlers make of what requests say:       *)
(* limited to their range, the default where one is missing.               *)
(***************************************************************************)
EXTENDS FiniteSets

CONSTANTS Fields, Values, Handlers

VARIABLES
    kind,   \* which document: "ai" or "config"
    held,   \* in the panel: db.ai, or s.cfg as read at the start
    file,
    save,   \* the handlers
    named   \* history: the values that requests gave each field

vars == <<kind, held, file, save, named>>

Docs == [Fields -> Values]
Idle == [pc |-> "idle"]
Work == [pc : {"save"}, next : Docs, field : Fields, fresh : BOOLEAN]

TypeOK ==
    /\ kind \in {"ai", "config"} /\ held \in Docs /\ file \in Docs
    /\ save \in [Handlers -> Work \cup {Idle}]
    /\ named \in [Fields -> SUBSET Values]

Init ==
    /\ kind \in {"ai", "config"}
    /\ file \in Docs /\ held = file
    /\ save = [t \in Handlers |-> Idle]
    /\ named = [f \in Fields |-> {file[f]}]
-----------------------------------------------------------------------------
(* What a request starts from.  config.json is read again, and what the    *)
(* panel read at its start stands in for a file that cannot be read.       *)
Base_Boot(readable) == held
Base(readable) == IF kind = "config" /\ readable THEN file ELSE held

Load(t, f, v) == \E readable \in BOOLEAN :
    /\ save[t] = Idle
    /\ save' = [save EXCEPT ![t] =
          [pc |-> "save", next |-> [Base(readable) EXCEPT ![f] = v], field |-> f,
           fresh |-> kind = "ai" \/ readable]]
    /\ UNCHANGED <<kind, held, file, named>>

(* A document that is stored outdates what the other requests have read. *)
Ends(t, outdates) ==
    save' = [u \in Handlers |->
               CASE u = t -> Idle
                 [] u # t /\ outdates /\ save[u] # Idle -> [save[u] EXCEPT !.fresh = FALSE]
                 [] OTHER -> save[u]]

(* A request that read an outdated document names all its fields. *)
Names(t) == IF save[t].fresh THEN {save[t].field} ELSE Fields

Store(t) ==
    /\ save[t] # Idle
    /\ file' = save[t].next
    /\ held' = IF kind = "ai" THEN save[t].next ELSE held
    /\ named' = [f \in Fields |->
                    IF f \in Names(t) THEN {save[t].next[f]} ELSE named[f]]
    /\ Ends(t, TRUE)
    /\ UNCHANGED kind

(* The file cannot be written: the request fails, the store keeps what it  *)
(* has in memory.                                                          *)
StoreFails(t) ==
    /\ save[t] # Idle
    /\ IF kind = "ai"
         THEN /\ held' = save[t].next
              /\ named' = [f \in Fields |->
                    named[f] \cup IF f \in Names(t) THEN {save[t].next[f]} ELSE {}]
         ELSE UNCHANGED <<held, named>>
    /\ Ends(t, kind = "ai")
    /\ UNCHANGED <<kind, file>>

(* A value out of range, or "custom" TLS without its files *)
Refuse(t) ==
    /\ save[t] # Idle
    /\ Ends(t, FALSE)
    /\ UNCHANGED <<kind, held, file, named>>

(* Any other change of the store writes the document of the AI along. *)
SaveAlong ==
    /\ kind = "ai" /\ file' = held
    /\ UNCHANGED <<kind, held, save, named>>

Restart ==
    /\ held' = file /\ save' = [t \in Handlers |-> Idle]
    /\ UNCHANGED <<kind, file, named>>

Next ==
    \/ SaveAlong \/ Restart
    \/ \E t \in Handlers :
          \/ Store(t) \/ StoreFails(t) \/ Refuse(t)
          \/ \E f \in Fields, v \in Values : Load(t, f, v)

Spec == Init /\ [][Next]_vars
-----------------------------------------------------------------------------
(* Each field is what the last request that named it stored, or what a     *)
(* failed one left in memory: a save never brings back a value that was    *)
(* replaced, through any number of restarts and failures, unless another   *)
(* save came between its reading and its writing or the file could not be  *)
(* read, when it sets every field to what it had read.                     *)
SavesKept ==
    \A f \in Fields :
       /\ file[f] \in named[f]
       /\ kind = "ai" => held[f] \in named[f]
=============================================================================
