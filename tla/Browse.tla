------------------------------- MODULE Browse -------------------------------
(***************************************************************************)
(* browse.c: the three calls that fetch JSON and copy it into structures   *)
(* of the caller - the albums, the pictures of an album page by page, the  *)
(* metadata of a picture - made through one of the clients of ClientObject.*)
(* The records of a reply are numbered in the server's order; the metadata *)
(* are a record 0 followed by the faces. Of the strings of a record only   *)
(* counts which were copied. json-c itself does not run out of memory.     *)
(***************************************************************************)
EXTENDS ClientObject, Sequences

CONSTANTS
  Caller,              (* the owner of the client that makes the calls     *)
  Strings,             (* the strings of a record                          *)
  MaxRecords, PageSize (* what the server has, what it sends at once       *)

ASSUME BrowseAssumption ==
  /\ Caller \in Owners /\ Strings # {}
  /\ MaxRecords \in Nat /\ PageSize \in Nat \ {0}

VARIABLES
  pc, call,
  total, unnamed,  \* the records the server has, the faces without a name
  items, next,     \* the reply: records not looked at yet, nextCursor or 0
  cursor,          \* the cursor in req, 0 for none
  refs,            \* [cursor -> references to that JSON string]
  listed,          \* the records in out[0..count)
  out,             \* the pointers not NULL that freeing out would free
  heap,            \* what this call and its result have allocated
  r,               \* 1: there are more pages, 0: done, -1: error
  status           \* what the last call returned

replyVars  == <<items, next>>
cursorVars == <<cursor, refs>>
resultVars == <<listed, out>>
askedVars  == <<call, total, unnamed>>
browseVars == <<pc, askedVars, replyVars, cursorVars, resultVars, heap, r,
                status>>
vars == <<clientVars, browseVars>>

Init ==
  /\ ClientInit
  /\ pc = "idle" /\ call = "albums" /\ total = 0 /\ unnamed = {}
  /\ items = <<>> /\ next = 0 /\ cursor = 0
  /\ refs = [c \in 1..MaxRecords |-> 0]
  /\ listed = <<>> /\ out = {} /\ heap = {} /\ r = 0 /\ status = "none"

-------------------------------------------------------------------------------
Step(from, to) == pc = from /\ pc' = to

(* The references to JSON cursor c change by d; 0 is no cursor             *)
Counted(rs, c, d) == [x \in DOMAIN rs |-> IF x = c THEN rs[x] + d ELSE rs[x]]

(* An allocation of the call itself; those of record i are <<i, name>>     *)
Own(name) == {<<0, name>>}

(* The three calls, the result of the last one having been freed           *)
Begin(k) ==
  /\ Step("idle", "send") /\ stage[Caller] = "ready" /\ out = {}
  /\ call' = k /\ total' \in 0..MaxRecords
  /\ listed' = <<>> /\ status' = "none"
  /\ UNCHANGED <<replyVars, cursorVars, out, r>>

list_albums == Begin("albums") /\ unnamed' = {} /\ UNCHANGED heap

list_album_pictures ==
  Begin("pictures") /\ unnamed' = {} /\ heap' = heap \cup Own("req")

(* An ID that is not a UUID is turned down at once, without a trace        *)
get_picture_metadata ==
  Begin("info") /\ unnamed' \in SUBSET (1..total') /\ UNCHANGED heap

(* A reply: all there is or, to a search, a page from the cursor on. A     *)
(* cursor leads on as long as anything is left, and then there is none.    *)
Reply ==
  /\ pc = "send"
  /\ \E to \in cursor..total :
       /\ IF call = "pictures" THEN /\ to <= cursor + PageSize
                                    /\ to = cursor => to = total
                               ELSE to = total
       /\ items' = [i \in 1..(to - cursor) |-> cursor + i]
       /\ next' = IF to < total THEN to ELSE 0
  /\ refs' = Counted(refs, next', 1) /\ heap' = heap \cup Own("resp")
  /\ pc' = IF call = "info" THEN "strings" ELSE "array"
  /\ UNCHANGED <<askedVars, cursor, resultVars, r, status>>

(* Mutants of RequestFails: a page that does not come is taken for the end *)
(* of the album, or asked for again                                        *)
RequestEnds ==
  /\ Step("send", "put") /\ Faults # {} /\ r' = 0
  /\ UNCHANGED <<askedVars, replyVars, cursorVars, resultVars, heap, status>>
RequestRepeats ==
  /\ Step("send", "put") /\ Faults # {} /\ r' = 1
  /\ UNCHANGED <<askedVars, replyVars, cursorVars, resultVars, heap, status>>

(* No answer, a status other than 2xx, or no JSON in it                    *)
RequestFails ==
  /\ Step("send", "put") /\ Faults # {} /\ r' = -1
  /\ UNCHANGED <<askedVars, replyVars, cursorVars, resultVars, heap, status>>

(* JSON, but not what was asked for                                        *)
Unexpected ==
  /\ Step("send", "put") /\ "network" \in Faults /\ r' = -1
  /\ heap' = heap \cup Own("resp")
  /\ UNCHANGED <<askedVars, replyVars, cursorVars, resultVars, status>>

(* Room for the records of the reply. If there is none, what was there     *)
(* before stays.                                                           *)
Grow ==
  /\ Step("array", "copy")
  /\ LET block == IF items = <<>> THEN {} ELSE Own("array") IN
     out' = out \cup block /\ heap' = heap \cup block
  /\ UNCHANGED <<askedVars, replyVars, cursorVars, listed, r, status>>

GrowFails ==
  /\ Step("array", "put") /\ items # <<>> /\ "memory" \in Faults /\ r' = -1
  /\ UNCHANGED <<askedVars, replyVars, cursorVars, resultVars, heap, status>>

Slots(names) == {Len(listed) + 1} \X names

(* Mutant of Copied: counts a record once all of it has been copied        *)
CopiedThenCounted(record, bad, after) ==
  /\ heap' = heap \cup Slots(Strings \ bad)
  /\ IF bad = {}
     THEN /\ listed' = Append(listed, record) /\ pc' = after
          /\ out' = out \cup Slots(Strings) /\ UNCHANGED r
     ELSE pc' = "put" /\ r' = -1 /\ UNCHANGED <<listed, out>>

(* A record is counted, then each of its strings is copied; a copy that    *)
(* fails leaves NULL and does not keep the others from being tried.        *)
Copied(record, bad, after) ==
  /\ heap' = heap \cup Slots(Strings \ bad)
  /\ out' = out \cup Slots(Strings \ bad)
  /\ listed' = Append(listed, record)
  /\ IF bad = {} THEN pc' = after /\ UNCHANGED r ELSE pc' = "put" /\ r' = -1

Failures == IF "memory" \in Faults THEN SUBSET Strings ELSE {{}}

CopyStrings ==
  /\ pc = "strings"
  /\ \E bad \in Failures : Copied(0, bad, "array")
  /\ UNCHANGED <<askedVars, replyVars, cursorVars, status>>

CopyRecord ==
  /\ pc = "copy" /\ call # "info" /\ items # <<>>
  /\ items' = Tail(items)
  /\ \E bad \in Failures : Copied(Head(items), bad, "copy")
  /\ UNCHANGED <<askedVars, next, cursorVars, status>>

(* collect_people() passes over faces without a name, and counts a face    *)
(* after its name has been copied                                          *)
CopyFace ==
  /\ Step("copy", "copy") /\ call = "info" /\ items # <<>>
  /\ items' = Tail(items)
  /\ IF Head(items) \in unnamed THEN UNCHANGED <<listed, out, heap>>
     ELSE /\ listed' = Append(listed, Head(items))
          /\ out' = out \cup Slots({"name"})
          /\ heap' = heap \cup Slots({"name"})
  /\ UNCHANGED <<askedVars, next, cursorVars, r, status>>

CopyFaceFails ==
  /\ Step("copy", "put") /\ call = "info" /\ items # <<>>
  /\ Head(items) \notin unnamed /\ "memory" \in Faults /\ r' = -1
  /\ UNCHANGED <<askedVars, replyVars, cursorVars, resultVars, heap, status>>

(* Mutant of EndOfPage: without json_object_get()                          *)
EndOfPageBorrows ==
  /\ Step("copy", "put") /\ items = <<>>
  /\ r' = IF next = 0 THEN 0 ELSE 1
  /\ cursor' = IF next = 0 THEN cursor ELSE next
  /\ refs' = IF next = 0 THEN refs ELSE Counted(refs, cursor, -1)
  /\ UNCHANGED <<askedVars, replyVars, resultVars, heap, status>>

(* The end of a reply. req takes a reference to the cursor of a page that  *)
(* is not the last, and gives up its reference to the one before.          *)
EndOfPage ==
  /\ Step("copy", "put") /\ items = <<>>
  /\ r' = IF next = 0 THEN 0 ELSE 1
  /\ cursor' = IF next = 0 THEN cursor ELSE next
  /\ refs' = IF next = 0 THEN refs
             ELSE Counted(Counted(refs, cursor, -1), next, 1)
  /\ UNCHANGED <<askedVars, replyVars, resultVars, heap, status>>

(* json_object_put() of the reply, which may be NULL                       *)
Put ==
  /\ Step("put", IF r = 1 THEN "send" ELSE "return")
  /\ items' = <<>> /\ next' = 0
  /\ refs' = Counted(refs, next, -1) /\ heap' = heap \ Own("resp")
  /\ UNCHANGED <<askedVars, cursor, resultVars, r, status>>

(* Mutant of Return: puts the cursor, which goes with req, once more       *)
ReturnPutsTwice ==
  /\ Step("return", "idle")
  /\ cursor' = 0 /\ refs' = Counted(refs, cursor, -2)
  /\ heap' = heap \ (Own("req") \cup IF r = 0 THEN {} ELSE out)
  /\ IF r = 0 THEN status' = "ok" /\ UNCHANGED resultVars
              ELSE status' = "failed" /\ out' = {} /\ listed' = <<>>
  /\ UNCHANGED <<askedVars, replyVars, r>>

(* req is put, and a result that is not whole is freed                     *)
Return ==
  /\ Step("return", "idle")
  /\ cursor' = 0 /\ refs' = Counted(refs, cursor, -1)
  /\ heap' = heap \ (Own("req") \cup IF r = 0 THEN {} ELSE out)
  /\ IF r = 0 THEN status' = "ok" /\ UNCHANGED resultVars
              ELSE status' = "failed" /\ out' = {} /\ listed' = <<>>
  /\ UNCHANGED <<askedVars, replyVars, r>>

(* The caller frees its result, maybe after its client                     *)
FreeResult ==
  /\ pc = "idle" /\ out # {}
  /\ heap' = heap \ out /\ out' = {} /\ listed' = <<>>
  /\ UNCHANGED <<pc, askedVars, replyVars, cursorVars, r, status>>

-------------------------------------------------------------------------------
CallStep ==
  \/ Reply \/ RequestFails \/ Unexpected \/ Grow \/ GrowFails \/ CopyStrings
  \/ CopyRecord \/ CopyFace \/ CopyFaceFails \/ EndOfPage \/ Put \/ Return

Next ==
  \/ /\ \/ list_albums \/ list_album_pictures \/ get_picture_metadata
        \/ CallStep \/ FreeResult
     /\ UNCHANGED clientVars
  \/ \E o \in Owners : /\ ClientStep(o)
                       /\ o = Caller => pc = "idle"
                       /\ UNCHANGED browseVars

(* A call that was made goes on: perform() ends every request              *)
Spec == Init /\ [][Next]_vars /\ WF_vars(CallStep /\ UNCHANGED clientVars)

-------------------------------------------------------------------------------
(* Every variable has its type; no reference is given up twice.            *)
TypeOK ==
  /\ curl_refs \in Nat /\ stage \in [Owners -> Stages]
  /\ fields \in [Owners -> SUBSET (Handles \cup Lists)]
  /\ pc \in {"idle", "send", "strings", "array", "copy", "put", "return"}
  /\ call \in {"albums", "pictures", "info"} /\ total \in 0..MaxRecords
  /\ unnamed \subseteq 1..total /\ items \in Seq(1..total)
  /\ next \in 0..total /\ cursor \in 0..total
  /\ refs \in [1..MaxRecords -> Nat] /\ listed \in Seq(0..total)
  /\ r \in -1..1 /\ status \in {"none", "ok", "failed"}

(* Wherever a page, a copy or a request fails, what a free of the result   *)
(* would visit is exactly what was allocated for it: no record half built  *)
(* is lost and no pointer is freed that was never set. After a call only   *)
(* the result is left, and after a client nothing.                         *)
NothingLeaks ==
  /\ pc = "return" => out = heap \ Own("req")
  /\ pc = "idle" => out = heap /\ \A c \in DOMAIN refs : refs[c] = 0
  /\ \A o \in Owners : stage[o] = "none" => \A b \in blocks : b[1] # o

(* The cursor that is sent for a page is still there, although the reply   *)
(* it came with has been put.                                              *)
CursorOutlivesItsPage == pc = "send" /\ cursor # 0 => refs[cursor] > 0

(* A call returns: the paging comes to an end with the album, and an error *)
(* ends it at once.                                                        *)
ListingEnds == pc # "idle" ~> pc = "idle"

(* What a reader of the result finds; a record that lacks a string counts  *)
(* for none of them                                                        *)
Whole(i) == \/ {i} \X Strings \subseteq out
            \/ call = "info" /\ i > 1 /\ <<i, "name">> \in out
Held ==
  IF pc # "idle" THEN <<>>
  ELSE [i \in 1..Len(listed) |-> IF Whole(i) THEN listed[i] ELSE MaxRecords + 1]

Wanted == (IF call = "info" THEN {0} ELSE {}) \cup ((1..total) \ unnamed)

(* Pages, copies and failures on the way, the caller gets all the server   *)
(* has, each record once and in order, no string NULL; or nothing.         *)
Promise == INSTANCE Listing
             WITH calling <- pc # "idle", wanted <- Wanted, result <- Held
AllOrNothing == Promise!Spec
==============================================================================
