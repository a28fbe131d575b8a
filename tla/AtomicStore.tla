---------------------------- MODULE AtomicStore ----------------------------
(***************************************************************************)
(* What the store promises about data, without volumes, index or messages: *)
(* every slice of a key is one register.  A put writes its registers and   *)
(* returns when readers are told of them, a get begins when a key is       *)
(* committed and reads registers one after the other, as they are when it  *)
(* reads them, and a delete takes away what readers are no longer told of. *)
(***************************************************************************)
CONSTANTS Key, Client, Cell, Slice, NoSlice, NoValue,
  Puts,    \* Puts[c]: the sets of items that client c puts at once
  Gets     \* what may be asked: functions from keys to wants

Slot == Slice \cup {NoSlice}
Box(s) == IF s = NoSlice THEN Cell ELSE s.region

VARIABLES
  content,    \* content[k][s]: what the last put of slice s of key k wrote
  listed,     \* listed[k]: the slices of k that readers are told of
  calls,      \* calls[c]: the put or get of client c, under way or returned
  deleting    \* deleting[c]: the keys that c's last delete still works on

vars == <<content, listed, calls, deleting>>

NoCall == [op |-> "none"]

Init ==
  /\ content = [k \in Key |-> [s \in Slot |-> NoValue]]
  /\ listed = [k \in Key |-> {}]
  /\ calls = [c \in Client |-> NoCall]
  /\ deleting = [c \in Client |-> {}]

Becomes(c, call) == calls' = [calls EXCEPT ![c] = call]

Free(c) == calls[c].op \notin {"put", "get"}

StartPut(c, items) ==
  /\ Free(c) /\ items \in Puts[c]
  /\ Becomes(c, [op |-> "put", left |-> items, done |-> {}])
  /\ UNCHANGED <<content, listed, deleting>>

Written(items, k, s) == { i \in items : i.key = k /\ i.slice = s }

(* Some of the items, or all of them at once. *)
Write(c, items) ==
  /\ calls[c].op = "put"
  /\ Becomes(c, [op |-> "put", left |-> calls[c].left \ items,
                 done |-> calls[c].done \cup items])
  /\ content' = [k \in Key |-> [s \in Slot |->
       IF Written(items, k, s) = {} THEN content[k][s]
       ELSE (CHOOSE i \in Written(items, k, s) : TRUE).data]]
  /\ UNCHANGED <<listed, deleting>>

(* What readers are told of is there. *)
FinishPut(c) ==
  /\ calls[c].op = "put" /\ calls[c].left = {}
  /\ \A i \in calls[c].done : content[i.key][i.slice] # NoValue
  /\ listed' = [k \in Key |->
       listed[k] \cup { i.slice : i \in { j \in calls[c].done : j.key = k } }]
  /\ Becomes(c, [op |-> "stored"])
  /\ UNCHANGED <<content, deleting>>

(* A whole entry, or slices that are all the coordinates of their mesh. *)
Committed(k) ==
  \/ NoSlice \in listed[k]
  \/ \E mesh \in { s.mesh_shape : s \in listed[k] } :
       /\ \A s \in listed[k] : s.mesh_shape = mesh
       /\ mesh = { s.coordinates : s \in listed[k] }

StartGet(c, wants) ==
  /\ Free(c) /\ wants \in Gets
  /\ Becomes(c, [op |-> "get", wants |-> wants, parts |-> {}])
  /\ \A k \in DOMAIN wants : Committed(k)
  /\ UNCHANGED <<content, listed, deleting>>

(* Of a slice what is wanted of it; an object is always read as a whole. *)
Regions(want) == { Box(s) \cap want.region : s \in Slot } \cup {Cell}

(* What the register of a slice can answer now, and what all of them can. *)
Answers(k, s, want) ==
  { [key |-> k, region |-> r, data |-> content[k][s]] :
      r \in { q \in Regions(want) : content[k][s] # NoValue /\ q \subseteq Box(s) } }

Pieces(wants) ==
  UNION { Answers(k, s, wants[k]) : k \in DOMAIN wants, s \in Slot }

Covers(parts, wants) ==
  \A k \in DOMAIN wants :
    wants[k].region \subseteq UNION { p.region : p \in { q \in parts : q.key = k } }

(* A get reads some more pieces; it may return once it has all it wants. *)
Read(c) ==
  /\ calls[c].op = "get"
  /\ UNCHANGED <<deleting, listed, content>>
  /\ \E parts \in SUBSET (Pieces(calls[c].wants) \ calls[c].parts) :
       LET got == calls[c].parts \cup parts
       IN  \E op \in {"get", "got"} :
             /\ op = "got" => Covers(got, calls[c].wants)
             /\ Becomes(c, [op |-> op, wants |-> calls[c].wants, parts |-> got])

(* A call raises, or the client turns to something else. *)
Ends(c) ==
  /\ Becomes(c, NoCall)
  /\ UNCHANGED <<content, listed, deleting>>

StartDelete(c, keys) ==
  /\ Free(c) /\ deleting[c] = {}
  /\ Becomes(c, NoCall)
  /\ deleting' = [deleting EXCEPT ![c] = keys]
  /\ UNCHANGED <<content, listed>>

(* gone: pairs of a key and a slice of it *)
Unlist(c, gone) ==
  /\ UNCHANGED <<content, calls, deleting>>
  /\ listed' = [k \in Key |-> { s \in listed[k] : <<k, s>> \notin gone }]

(* What is listed is never erased.  The delete may end, or go on. *)
Erase(c, gone, rest) ==
  /\ UNCHANGED <<calls, listed>>
  /\ deleting' = [deleting EXCEPT ![c] = rest]
  /\ content' = [k \in Key |-> [s \in Slot |->
       IF <<k, s>> \in gone THEN NoValue ELSE content[k][s]]]

Listed(c) == { p \in deleting[c] \X Slot : p[2] \in listed[p[1]] }
Unlisted(c) ==
  { p \in deleting[c] \X Slot :
      p[2] \notin listed[p[1]] /\ content[p[1]][p[2]] # NoValue }

Next ==
  \E c \in Client :
    \/ Ends(c)
    \/ \E items \in Puts[c] : StartPut(c, items)
    \/ calls[c].op = "put" /\ \E items \in SUBSET calls[c].left : Write(c, items)
    \/ FinishPut(c)
    \/ \E wants \in Gets : StartGet(c, wants)
    \/ Read(c)
    \/ \E keys \in SUBSET Key : StartDelete(c, keys)
    \/ deleting[c] # {} /\
         \/ \E gone \in SUBSET Listed(c) : Unlist(c, gone)
         \/ \E gone \in SUBSET Unlisted(c) : \E rest \in SUBSET deleting[c] :
              Erase(c, gone, rest)

Spec == Init /\ [][Next]_vars
=============================================================================
