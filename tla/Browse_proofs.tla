----------------------------- MODULE Browse_proofs -----------------------------
(***************************************************************************)
(* Theorems about the client objects and the calls of browse.c, for any    *)
(* number of threads, of records and of strings, and any size of a page.   *)
(***************************************************************************)
EXTENDS Browse, FiniteSetTheorems, SequenceTheorems, TLAPS

(* Everything allocated for a client has an owner that will release it: a  *)
(* member of the struct, the struct itself, or the local key_hdr.          *)
Names == Handles \cup Lists \cup {"struct", "key_hdr"}
OwnedInv ==
  /\ blocks \subseteq Owners \X Names
  /\ \A o \in Owners :
       /\ \A n \in Handles \cup Lists : <<o, n>> \in blocks => n \in fields[o]
       /\ fields[o] # {} => stage[o] \in {"headers", "broken", "ready", "free"}
       /\ <<o, "struct">> \in blocks
            => stage[o] \in {"members", "headers", "broken", "ready", "free"}
       /\ <<o, "key_hdr">> \in blocks => stage[o] \in {"headers", "broken"}

(* libcurl counts the threads that are in between new and free             *)
Users == {o \in Owners : stage[o] # "none"}
CurlInv == curl_refs = Cardinality(Users)

ClientTypes == /\ stage \in [Owners -> Stages]
               /\ fields \in [Owners -> SUBSET (Handles \cup Lists)]
ClientInv == ClientTypes /\ OwnedInv /\ CurlInv

(* The reply and the request each hold one reference to their cursor       *)
RefsInv ==
  /\ refs = [c \in 1..MaxRecords |-> (IF c = next THEN 1 ELSE 0)
                                    + (IF c = cursor THEN 1 ELSE 0)]
  /\ pc \in {"idle", "send", "return"} => next = 0 /\ items = <<>>
  /\ pc = "idle" => cursor = 0

(* What has been allocated is the result, the request or the reply         *)
HeapInv ==
  /\ out = heap \ (Own("req") \cup Own("resp"))
  /\ pc \in {"idle", "send", "return"} => <<0, "resp">> \notin heap
  /\ pc = "idle" => <<0, "req">> \notin heap

(* What remains of a reply are the last records before its end             *)
PageEnd == IF next = 0 THEN total ELSE next
LookedAt == PageEnd - Len(items)
PageInv ==
  /\ call # "info" => unnamed = {}
  /\ next # 0 \/ cursor # 0 => call = "pictures"
  /\ pc \in {"strings", "array", "copy"} =>
       \A i \in 1..Len(items) : items[i] = LookedAt + i
  /\ pc = "strings" => call = "info" /\ LookedAt = 0
  /\ pc \in {"array", "copy"} => LookedAt \in 0..total

(* The records that are wanted up to the n-th                              *)
WantedTo(n) == (IF call = "info" THEN {0} ELSE {}) \cup ((1..n) \ unnamed)
Holds(n) == /\ Promise!InOrder(listed, WantedTo(n))
            /\ \A i \in 1..Len(listed) : Whole(i)

(* As long as nothing has failed, the result holds what has been looked at *)
ListedInv ==
  /\ pc = "send" /\ call # "info" => Holds(cursor)
  /\ pc \in {"send", "strings"} /\ call = "info" => listed = <<>>
  /\ pc \in {"array", "copy"} => Holds(LookedAt)
  /\ pc = "put" /\ r = 1 => next # 0 /\ cursor = next /\ Holds(cursor)
  /\ pc \in {"put", "return"} /\ r = 0 => Holds(total)
  /\ pc = "return" => r # 1
  /\ pc = "idle" => \A i \in 1..Len(listed) : Whole(i)

CallTypes ==
  /\ pc \in {"idle", "send", "strings", "array", "copy", "put", "return"}
  /\ call \in {"albums", "pictures", "info"} /\ total \in 0..MaxRecords
  /\ unnamed \subseteq 1..total /\ items \in Seq(1..total)
  /\ next \in 0..total /\ cursor \in 0..total
  /\ refs \in [1..MaxRecords -> Nat] /\ listed \in Seq(0..total)
  /\ r \in -1..1 /\ status \in {"none", "ok", "failed"}

Inv ==
  ClientInv /\ CallTypes /\ RefsInv /\ HeapInv /\ PageInv /\ ListedInv

-------------------------------------------------------------------------------
(* No step of a client loses or frees anything of another.                 *)
LEMMA ClientInvStep ==
  ASSUME ClientInv, NEW o \in Owners, ClientStep(o)
  PROVE  ClientTypes' /\ OwnedInv'
<1> USE DEF ClientInv, ClientTypes, OwnedInv, Names, Handles, Lists, Stages,
            GoOn, Blocks
<1>1. CASE InitCurl(o)
  BY <1>1 DEF InitCurl
<1>2. CASE Calloc(o)
  BY <1>2 DEF Calloc
<1>3. CASE CallocFails(o)
  BY <1>3 DEF CallocFails
<1>4. CASE Members(o)
  <2>1. PICK got \in SUBSET (Handles \cup {"key_hdr"}) :
          /\ stage[o] = "members"
          /\ stage' = [stage EXCEPT ![o] =
                 IF Handles \cup {"key_hdr"} \subseteq got
                 THEN "headers" ELSE "broken"]
          /\ blocks' = blocks \cup ({o} \X got)
          /\ fields' = [fields EXCEPT ![o] = got \cap Handles]
    BY <1>4 DEF Members
  <2>2. ClientTypes'
    BY <2>1
  <2>3. blocks' \subseteq Owners \X Names
    BY <2>1
  <2>4. stage'[o] \in {"headers", "broken"}
    BY <2>1
  <2>5. \A n : <<o, n>> \in blocks' <=> <<o, n>> \in blocks \/ n \in got
    BY <2>1
  <2>6. \A p \in Owners \ {o} : \A n :
          /\ stage'[p] = stage[p] /\ fields'[p] = fields[p]
          /\ <<p, n>> \in blocks' <=> <<p, n>> \in blocks
    BY <2>1
  <2>7. fields[o] = {} /\ fields'[o] = got \cap Handles
    BY <2>1
  <2>8. QED
    BY <2>2, <2>3, <2>4, <2>5, <2>6, <2>7
<1>5. CASE Headers(o)
  <2>1. ClientTypes' /\ blocks' \subseteq Owners \X Names
    BY <1>5 DEF Headers
  <2>2. stage'[o] = "ready" /\ fields'[o] = fields[o] \cup Lists
    BY <1>5 DEF Headers
  <2>3. \A n : <<o, n>> \in blocks' <=>
                  (<<o, n>> \in blocks \/ n \in Lists) /\ n # "key_hdr"
    BY <1>5 DEF Headers
  <2>4. \A p \in Owners \ {o} : \A n :
          /\ stage'[p] = stage[p] /\ fields'[p] = fields[p]
          /\ <<p, n>> \in blocks' <=> <<p, n>> \in blocks
    BY <1>5 DEF Headers
  <2>5. \A p \in Owners : \A n \in Handles \cup Lists :
          <<p, n>> \in blocks' => n \in fields'[p]
    BY <2>2, <2>3, <2>4
  <2>6. \A p \in Owners :
          fields'[p] # {} => stage'[p] \in {"headers", "broken", "ready", "free"}
    BY <2>2, <2>4
  <2>7. \A p \in Owners :
          <<p, "struct">> \in blocks'
            => stage'[p] \in {"members", "headers", "broken", "ready", "free"}
    BY <2>2, <2>3, <2>4
  <2>8. \A p \in Owners :
          <<p, "key_hdr">> \in blocks' => stage'[p] \in {"headers", "broken"}
    BY <2>2, <2>3, <2>4
  <2>9. QED
    BY <2>1, <2>5, <2>6, <2>7, <2>8
<1>6. CASE Discard(o)
  BY <1>6 DEF Discard
<1>7. CASE Free(o)
  BY <1>7 DEF Free
<1>8. CASE Release(o)
  BY <1>8 DEF Release
<1>9. CASE CleanupCurl(o)
  BY <1>9 DEF CleanupCurl
<1>10. QED
  BY <1>1, <1>2, <1>3, <1>4, <1>5, <1>6, <1>7, <1>8, <1>9 DEF ClientStep

(* The count of libcurl's users is a number, and 0 if there are none.      *)
LEMMA CurlCounts ==
  ASSUME CurlInv
  PROVE  curl_refs \in Nat /\ (Users # {} <=> curl_refs > 0)
<1>1. IsFiniteSet(Users)
  BY ClientAssumption, FS_Subset DEF ClientAssumption, Users
<1>2. Cardinality(Users) \in Nat /\ (Cardinality(Users) = 0 <=> Users = {})
  BY <1>1, FS_CardinalityType, FS_EmptySet
<1>3. QED
  BY <1>2 DEF CurlInv

(* Every way in is counted once, and so is every way out.                  *)
LEMMA CurlStep ==
  ASSUME ClientInv, NEW o \in Owners, ClientStep(o)
  PROVE  CurlInv'
<1> USE ClientAssumption DEF ClientAssumption, ClientInv, ClientTypes, GoOn
<1>1. IsFiniteSet(Users) /\ Cardinality(Users) \in Nat
  BY FS_Subset, FS_CardinalityType DEF Users
<1>2. CASE InitCurl(o)
  <2>1. o \notin Users /\ Users' = Users \cup {o}
    BY <1>2 DEF InitCurl, Users
  <2>2. QED
    BY <1>1, <1>2, <2>1, FS_AddElement DEF InitCurl, CurlInv
<1>3. CASE CleanupCurl(o)
  <2>1. o \in Users /\ Users' = Users \ {o}
    BY <1>3 DEF CleanupCurl, Users
  <2>2. QED
    BY <1>1, <1>3, <2>1, FS_RemoveElement DEF CleanupCurl, CurlInv
<1>4. ASSUME curl_refs' = curl_refs,
             stage[o] # "none",
             NEW s, s # "none", stage' = [stage EXCEPT ![o] = s]
      PROVE  CurlInv'
  <2>1. Users' = Users
    BY <1>4 DEF Users
  <2>2. QED
    BY <1>4, <2>1 DEF CurlInv
<1>5. CASE Calloc(o)
  BY <1>4, <1>5 DEF Calloc
<1>6. CASE CallocFails(o)
  BY <1>4, <1>6 DEF CallocFails
<1>7. CASE Members(o)
  <2>1. PICK got \in SUBSET (Handles \cup {"key_hdr"}) :
          GoOn(o, "members", IF Handles \cup {"key_hdr"} \subseteq got
                             THEN "headers" ELSE "broken")
    BY <1>7 DEF Members
  <2>2. QED
    BY <1>4, <1>7, <2>1 DEF Members
<1>8. CASE Headers(o)
  BY <1>4, <1>8 DEF Headers
<1>9. CASE Discard(o)
  BY <1>4, <1>9 DEF Discard
<1>10. CASE Free(o)
  BY <1>4, <1>10 DEF Free
<1>11. CASE Release(o)
  BY <1>4, <1>11 DEF Release
<1>12. QED
  BY <1>2, <1>3, <1>5, <1>6, <1>7, <1>8, <1>9, <1>10, <1>11 DEF ClientStep

(* The steps that belong to browse.c                                       *)
AnyCall ==
  \/ list_albums \/ list_album_pictures \/ get_picture_metadata
  \/ CallStep \/ FreeResult

(* A call keeps the types of its variables.                                *)
LEMMA CallTypesStep ==
  ASSUME CallTypes, RefsInv, AnyCall
  PROVE  CallTypes'
<1> USE BrowseAssumption
    DEF BrowseAssumption, CallTypes, RefsInv, Counted,
        Step, askedVars, replyVars, cursorVars, resultVars
<1>1. CASE list_albums
  BY <1>1 DEF list_albums, Begin
<1>2. CASE list_album_pictures
  BY <1>2 DEF list_album_pictures, Begin
<1>3. CASE get_picture_metadata
  BY <1>3 DEF get_picture_metadata, Begin
<1>4. CASE Reply
  BY <1>4 DEF Reply
<1>5. CASE RequestFails
  BY <1>5 DEF RequestFails
<1>6. CASE Unexpected
  BY <1>6 DEF Unexpected
<1>7. CASE Grow
  BY <1>7 DEF Grow
<1>8. CASE GrowFails
  BY <1>8 DEF GrowFails
<1>9. CASE CopyStrings
  BY <1>9 DEF CopyStrings, Copied, Slots
<1>10. CASE CopyRecord
  <2>1. Head(items) \in 0..total /\ Tail(items) \in Seq(1..total)
    BY <1>10, HeadTailProperties DEF CopyRecord
  <2>2. listed' \in Seq(0..total)
    BY <1>10, <2>1, AppendProperties DEF CopyRecord, Copied
  <2>3. items' \in Seq(1..total)
        /\ UNCHANGED <<askedVars, next, cursorVars, status>>
    BY <1>10, <2>1 DEF CopyRecord
  <2>4. /\ pc' \in {"copy", "put"} /\ r' \in -1..1
    BY <1>10, SMTT(30) DEF CopyRecord, Copied
  <2>5. QED
    BY <2>2, <2>3, <2>4
<1>11. CASE CopyFace
  <2>1. Head(items) \in 0..total /\ Tail(items) \in Seq(1..total)
    BY <1>11, HeadTailProperties DEF CopyFace
  <2>2. listed' = listed \/ listed' = Append(listed, Head(items))
    BY <1>11 DEF CopyFace
  <2>3. Append(listed, Head(items)) \in Seq(0..total)
    BY <2>1, AppendProperties
  <2>4. listed' \in Seq(0..total)
    <3>1. CASE listed' = listed
      BY <3>1
    <3>2. CASE listed' = Append(listed, Head(items))
      BY <2>3, <3>2
    <3>3. QED
      BY <2>2, <3>1, <3>2
  <2>5. items' \in Seq(1..total) /\ pc' = "copy"
        /\ UNCHANGED <<askedVars, next, cursorVars, r, status>>
    BY <1>11, <2>1 DEF CopyFace
  <2>6. QED
    BY <2>4, <2>5
<1>12. CASE CopyFaceFails
  BY <1>12 DEF CopyFaceFails
<1>13. CASE EndOfPage
  BY <1>13 DEF EndOfPage
<1>14. CASE Put
  BY <1>14 DEF Put
<1>15. CASE Return
  <2>1. refs' \in [1..MaxRecords -> Nat]
    BY <1>15 DEF Return
  <2>2. listed' \in Seq(0..total)
    <3>1. listed' = listed \/ listed' = <<>>
      BY <1>15 DEF Return
    <3>2. CASE listed' = listed
      BY <3>2
    <3>3. CASE listed' = <<>>
      BY <3>3
    <3>4. QED
      BY <3>1, <3>2, <3>3
  <2>3. /\ pc' = "idle" /\ cursor' = 0 /\ status' \in {"ok", "failed"}
        /\ UNCHANGED <<askedVars, replyVars, r>>
    BY <1>15 DEF Return
  <2>4. QED
    BY <2>1, <2>2, <2>3
<1>16. CASE FreeResult
  BY <1>16 DEF FreeResult
<1>17. QED
  BY <1>1, <1>2, <1>3, <1>4, <1>5, <1>6, <1>7, <1>8, <1>9, <1>10, <1>11, <1>12, <1>13, <1>14, <1>15, <1>16
  DEF AnyCall, CallStep

(* A reference that is taken is given up by whoever took it.               *)
LEMMA RefsStep ==
  ASSUME CallTypes, RefsInv, AnyCall
  PROVE  RefsInv'
<1> USE BrowseAssumption
    DEF BrowseAssumption, CallTypes, RefsInv, Counted,
        Step, askedVars, replyVars, cursorVars, resultVars
<1>1. CASE list_albums
  BY <1>1 DEF list_albums, Begin
<1>2. CASE list_album_pictures
  BY <1>2 DEF list_album_pictures, Begin
<1>3. CASE get_picture_metadata
  BY <1>3 DEF get_picture_metadata, Begin
<1>4. CASE Reply
  BY <1>4 DEF Reply
<1>5. CASE RequestFails
  BY <1>5 DEF RequestFails
<1>6. CASE Unexpected
  BY <1>6 DEF Unexpected
<1>7. CASE Grow
  BY <1>7 DEF Grow
<1>8. CASE GrowFails
  BY <1>8 DEF GrowFails
<1>9. CASE CopyStrings
  BY <1>9 DEF CopyStrings, Copied, Slots
<1>10. CASE CopyRecord
  BY <1>10 DEF CopyRecord, Copied, Slots
<1>11. CASE CopyFace
  BY <1>11 DEF CopyFace, Slots
<1>12. CASE CopyFaceFails
  BY <1>12 DEF CopyFaceFails
<1>13. CASE EndOfPage
  <2>1. CASE next = 0
    BY <1>13, <2>1 DEF EndOfPage
  <2>2. CASE next # 0
    <3>1. \A c \in 1..MaxRecords :
            refs'[c] = refs[c] - (IF c = cursor THEN 1 ELSE 0)
                               + (IF c = next THEN 1 ELSE 0)
      BY <1>13, <2>2 DEF EndOfPage
    <3>2. refs' = [c \in 1..MaxRecords |-> refs'[c]]
      BY <1>13, <2>2 DEF EndOfPage
    <3>3. cursor' = next /\ next' = next /\ pc' = "put"
      BY <1>13, <2>2 DEF EndOfPage
    <3>4. \A c \in 1..MaxRecords :
            refs'[c] = (IF c = next' THEN 1 ELSE 0)
                         + (IF c = cursor' THEN 1 ELSE 0)
      BY <3>1, <3>3
    <3>5. QED
      BY <3>2, <3>3, <3>4
  <2>3. QED
    BY <2>1, <2>2
<1>14. CASE Put
  BY <1>14 DEF Put
<1>15. CASE Return
  BY <1>15 DEF Return
<1>16. CASE FreeResult
  BY <1>16 DEF FreeResult
<1>17. QED
  BY <1>1, <1>2, <1>3, <1>4, <1>5, <1>6, <1>7, <1>8, <1>9, <1>10, <1>11, <1>12, <1>13, <1>14, <1>15, <1>16
  DEF AnyCall, CallStep

(* What a step allocates is counted into the result in the same step.      *)
LEMMA HeapStep ==
  ASSUME CallTypes, HeapInv, AnyCall
  PROVE  HeapInv'
<1> USE BrowseAssumption
    DEF BrowseAssumption, CallTypes, HeapInv, Own,
        Step, askedVars, replyVars, cursorVars, resultVars
<1>1. CASE list_albums
  BY <1>1 DEF list_albums, Begin
<1>2. CASE list_album_pictures
  BY <1>2 DEF list_album_pictures, Begin
<1>3. CASE get_picture_metadata
  BY <1>3 DEF get_picture_metadata, Begin
<1>4. CASE Reply
  BY <1>4 DEF Reply
<1>5. CASE RequestFails
  BY <1>5 DEF RequestFails
<1>6. CASE Unexpected
  BY <1>6 DEF Unexpected
<1>7. CASE Grow
  BY <1>7 DEF Grow
<1>8. CASE GrowFails
  BY <1>8 DEF GrowFails
<1>9. CASE CopyStrings
  BY <1>9 DEF CopyStrings, Copied, Slots
<1>10. CASE CopyRecord
  BY <1>10, SMTT(30) DEF CopyRecord, Copied, Slots
<1>11. CASE CopyFace
  BY <1>11 DEF CopyFace, Slots
<1>12. CASE CopyFaceFails
  BY <1>12 DEF CopyFaceFails
<1>13. CASE EndOfPage
  BY <1>13 DEF EndOfPage
<1>14. CASE Put
  BY <1>14 DEF Put
<1>15. CASE Return
  BY <1>15 DEF Return
<1>16. CASE FreeResult
  BY <1>16 DEF FreeResult
<1>17. QED
  BY <1>1, <1>2, <1>3, <1>4, <1>5, <1>6, <1>7, <1>8, <1>9, <1>10, <1>11, <1>12, <1>13, <1>14, <1>15, <1>16
  DEF AnyCall, CallStep

-------------------------------------------------------------------------------
(* One record further the remainder of the reply is one record shorter.    *)
LEMMA PageTail ==
  ASSUME CallTypes, PageInv, pc = "copy", items # <<>>
  PROVE  /\ Head(items) = LookedAt + 1 /\ LookedAt + 1 \in 1..total
         /\ Tail(items) \in Seq(1..total)
         /\ Len(Tail(items)) = Len(items) - 1
         /\ \A i \in 1..Len(Tail(items)) :
              Tail(items)[i] = LookedAt + 1 + i
<1>1. /\ Len(items) \in Nat /\ Len(items) > 0
      /\ \A i \in 1..Len(items) : items[i] = LookedAt + i /\ items[i] \in 1..total
      /\ LookedAt \in Nat
  <2>1. /\ Len(items) \in Nat /\ Len(items) > 0
        /\ \A i \in 1..Len(items) : items[i] \in 1..total
    BY DEF CallTypes
  <2>2. /\ \A i \in 1..Len(items) : items[i] = LookedAt + i
        /\ LookedAt \in Nat
    BY DEF CallTypes, PageInv
  <2> QED
    BY <2>1, <2>2
<1>2. /\ Tail(items) \in Seq(1..total) /\ Head(items) = items[1]
      /\ Len(Tail(items)) = Len(items) - 1
      /\ \A i \in 1..Len(Tail(items)) : Tail(items)[i] = items[i + 1]
  BY DEF CallTypes
<1>3. Head(items) = LookedAt + 1 /\ LookedAt + 1 \in 1..total
  BY <1>1, <1>2
<1>4. ASSUME NEW i \in 1..Len(Tail(items))
      PROVE  Tail(items)[i] = LookedAt + 1 + i
  <2>1. i \in Nat /\ i + 1 \in 1..Len(items) /\ Tail(items)[i] = items[i + 1]
    BY <1>1, <1>2, <1>4
  <2>2. items[i + 1] = LookedAt + (i + 1)
    BY <1>1, <2>1
  <2> QED
    BY <1>1, <2>1, <2>2
<1> QED
  BY <1>2, <1>3, <1>4

(* A reply is looked at from the first record that was asked for.          *)
LEMMA PageOfReply ==
  ASSUME CallTypes, RefsInv, PageInv, Reply
  PROVE  /\ LookedAt' = cursor /\ cursor \in 0..total
         /\ \A i \in 1..Len(items') : items'[i] = cursor + i
         /\ next' # 0 => call = "pictures"
         /\ call = "info" => cursor = 0
<1>1. PICK to \in cursor..total :
        /\ IF call = "pictures" THEN /\ to <= cursor + PageSize
                                     /\ to = cursor => to = total
                                ELSE to = total
        /\ items' = [i \in 1..(to - cursor) |-> cursor + i]
        /\ next' = IF to < total THEN to ELSE 0
  BY DEF Reply
<1>2. cursor \in Nat /\ total \in Nat /\ cursor <= total
  BY BrowseAssumption DEF BrowseAssumption, CallTypes
<1>3. Len(items') = to - cursor
        /\ \A i \in 1..Len(items') : items'[i] = cursor + i
  BY <1>1, <1>2
<1>4. PageEnd' = to
  <2>1. total' = total
    BY DEF Reply, askedVars
  <2> QED
    BY <1>1, <1>2, <2>1 DEF PageEnd
<1>5. LookedAt' = cursor
  BY <1>1, <1>2, <1>3, <1>4 DEF LookedAt
<1>6. call = "info" => cursor = 0
  BY DEF PageInv
<1> QED
  BY <1>1, <1>2, <1>3, <1>5, <1>6

(* A reply is looked at record by record, to its end.                      *)
LEMMA PageStep ==
  ASSUME CallTypes, RefsInv, PageInv, AnyCall
  PROVE  PageInv'
<1> USE BrowseAssumption
    DEF BrowseAssumption, Step, askedVars, replyVars, cursorVars, resultVars
<1>1. CASE list_albums \/ list_album_pictures \/ get_picture_metadata
  BY <1>1 DEF list_albums, list_album_pictures, get_picture_metadata, Begin,
     PageInv, RefsInv
<1>2. CASE Reply
  <2>1. /\ pc' = IF call = "info" THEN "strings" ELSE "array"
        /\ UNCHANGED <<call, total, unnamed, cursor>>
    BY <1>2 DEF Reply
  <2> QED
    BY <1>2, <2>1, PageOfReply DEF PageInv
<1>3. CASE RequestFails \/ Unexpected \/ GrowFails \/ CopyFaceFails
  BY <1>3 DEF RequestFails, Unexpected, GrowFails, CopyFaceFails, PageInv
<1>4. CASE Grow \/ CopyStrings
  <2>1. /\ pc \in {"strings", "array"} /\ pc' \in {"array", "copy", "put"}
        /\ UNCHANGED <<call, total, unnamed, items, next, cursor>>
    BY <1>4 DEF Grow, CopyStrings, Copied
  <2>2. LookedAt' = LookedAt
    BY <2>1 DEF LookedAt, PageEnd
  <2>3. 0 \in 0..total
    BY DEF CallTypes
  <2> QED
    BY <2>1, <2>2, <2>3 DEF PageInv
<1>5. CASE CopyRecord \/ CopyFace
  <2>1. /\ pc = "copy" /\ pc' \in {"copy", "put"} /\ items # <<>>
        /\ items' = Tail(items)
        /\ UNCHANGED <<call, total, unnamed, next, cursor>>
    BY <1>5 DEF CopyRecord, CopyFace, Copied
  <2>2. LookedAt' = LookedAt + 1
    <3>1. Len(items) \in Nat /\ PageEnd \in Nat /\ PageEnd' = PageEnd
      BY <2>1 DEF PageEnd, CallTypes
    <3> QED
      BY <2>1, <3>1, PageTail DEF LookedAt
  <2>3. /\ LookedAt' \in 0..total
        /\ \A i \in 1..Len(items') : items'[i] = LookedAt' + i
    <3>1. LookedAt + 1 \in 0..total
      BY <2>1, PageTail DEF CallTypes
    <3>2. \A i \in 1..Len(Tail(items)) : Tail(items)[i] = LookedAt + 1 + i
      BY <2>1, PageTail
    <3> QED
      BY <2>1, <2>2, <3>1, <3>2
  <2> QED
    BY <2>1, <2>3 DEF PageInv
<1>6. CASE EndOfPage \/ Put \/ Return
  BY <1>6 DEF EndOfPage, Put, Return, PageInv
<1>7. CASE FreeResult
  BY <1>7 DEF FreeResult, PageInv
<1> QED
  BY <1>1, <1>2, <1>3, <1>4, <1>5, <1>6, <1>7 DEF AnyCall, CallStep

-------------------------------------------------------------------------------
(* A list in order stays so if something larger is appended.               *)
LEMMA InOrderAppend ==
  ASSUME NEW S, NEW s \in Seq(Nat), Promise!InOrder(s, S), NEW m \in Nat,
         \A x \in S : x < m
  PROVE  Promise!InOrder(Append(s, m), S \cup {m})
<1> DEFINE t == Append(s, m)
<1>1. /\ Len(s) \in Nat /\ Len(t) = Len(s) + 1 /\ t[Len(s) + 1] = m
      /\ \A i \in 1..Len(s) : t[i] = s[i] /\ s[i] \in S
  BY AppendProperties DEF Promise!InOrder
<1> HIDE DEF t
<1>2. ASSUME NEW i \in 1..Len(t), NEW j \in 1..Len(t), i < j
      PROVE  t[i] < t[j]
  <2>1. i \in 1..Len(s) /\ (j \in 1..Len(s) \/ j = Len(s) + 1)
    BY <1>1, <1>2
  <2>2. CASE j \in 1..Len(s)
    BY <1>1, <1>2, <2>1, <2>2 DEF Promise!InOrder
  <2>3. CASE j = Len(s) + 1
    BY <1>1, <2>1, <2>3
  <2> QED
    BY <2>1, <2>2, <2>3
<1>3. {t[i] : i \in 1..Len(t)} = S \cup {m}
  <2>1. \A i \in 1..Len(t) : i \in 1..Len(s) \/ i = Len(s) + 1
    BY <1>1
  <2>2. 1..Len(s) \subseteq 1..Len(t) /\ Len(s) + 1 \in 1..Len(t)
    BY <1>1
  <2>3. {t[i] : i \in 1..Len(t)} \subseteq S \cup {m}
    BY <1>1, <2>1
  <2>4. \A x \in S : \E i \in 1..Len(s) : x = s[i]
    BY DEF Promise!InOrder
  <2>5. S \subseteq {t[i] : i \in 1..Len(t)}
    BY <1>1, <2>2, <2>4
  <2>6. m \in {t[i] : i \in 1..Len(t)}
    BY <1>1, <2>2
  <2> QED
    BY <2>3, <2>5, <2>6
<1> QED
  BY <1>2, <1>3 DEF Promise!InOrder, t

(* An empty list holds nothing, and is in order.                           *)
LEMMA InOrderEmpty == Promise!InOrder(<<>>, {})
<1>1. Len(<<>>) = 0
  OBVIOUS
<1>2. 1..0 = {}
  OBVIOUS
<1> QED
  BY <1>1, <1>2 DEF Promise!InOrder

(* A record copied with all its strings is one more that the result holds. *)
LEMMA HoldsNext ==
  ASSUME CallTypes, NEW n \in Nat, Holds(n), n + 1 \in 1..total,
         n + 1 \notin unnamed, listed' = Append(listed, n + 1),
         out \subseteq out', UNCHANGED <<call, unnamed>>,
         \/ Slots(Strings) \subseteq out'
         \/ call = "info" /\ Slots({"name"}) \subseteq out'
  PROVE  Holds(n + 1)'
<1>1. /\ listed \in Seq(Nat) /\ Len(listed) \in Nat
      /\ Len(listed') = Len(listed) + 1
  BY BrowseAssumption, AppendProperties DEF BrowseAssumption, CallTypes
<1>2. WantedTo(n + 1)' = WantedTo(n) \cup {n + 1}
  <2>1. 1..(n + 1) = (1..n) \cup {n + 1}
    OBVIOUS
  <2> QED
    BY <2>1 DEF WantedTo
<1>3. \A x \in WantedTo(n) : x < n + 1
  BY DEF WantedTo
<1>4. Promise!InOrder(listed', WantedTo(n + 1)')
  <2>1. Promise!InOrder(listed, WantedTo(n))
    BY DEF Holds
  <2> QED
    BY <1>1, <1>2, <1>3, <2>1, InOrderAppend
<1>5. ASSUME NEW i \in 1..Len(listed)
      PROVE  Whole(i)'
  <2>1. Whole(i)
    BY DEF Holds
  <2> QED
    BY <2>1 DEF Whole
<1>6. PICK k \in Nat : k = Len(listed) + 1
  BY <1>1
<1>7. Whole(k)'
  <2>1. CASE Slots(Strings) \subseteq out'
    BY <1>6, <2>1 DEF Whole, Slots
  <2>2. CASE call = "info" /\ Slots({"name"}) \subseteq out'
    <3>1. 0 \in {listed[i] : i \in 1..Len(listed)}
      BY <2>2 DEF Holds, WantedTo, Promise!InOrder
    <3>2. k > 1
      BY <1>6, <1>1, <3>1
    <3> QED
      BY <1>6, <2>2, <3>2 DEF Whole, Slots
  <2> QED
    BY <2>1, <2>2
<1>8. \A i \in 1..Len(listed') : i \in 1..Len(listed) \/ i = k
  BY <1>6, <1>1
<1> QED
  BY <1>4, <1>5, <1>7, <1>8 DEF Holds

(* What the result holds it goes on to hold while nothing is taken away.   *)
LEMMA HoldsKept ==
  ASSUME UNCHANGED <<listed, call, unnamed>>, out \subseteq out', NEW n,
         Holds(n)
  PROVE  Holds(n)'
BY DEF Holds, Whole, WantedTo

(* What a result that was begun holds before the first record              *)
LEMMA HoldsNothing ==
  ASSUME listed' = <<>>, call' # "info"
  PROVE  Holds(0)'
<1>1. WantedTo(0)' = {} /\ Len(<<>>) = 0
  BY DEF WantedTo
<1>2. 1..0 = {}
  OBVIOUS
<1> QED
  BY <1>1, <1>2, InOrderEmpty DEF Holds

(* A step that copies keeps up with what has been looked at.               *)
LEMMA CopyStep ==
  ASSUME CallTypes, PageInv, ListedInv, CopyStrings \/ CopyRecord \/ CopyFace,
         pc' # "put"
  PROVE  Holds(LookedAt)'
<1> USE DEF Step, askedVars, cursorVars
<1>1. LookedAt \in Nat
  BY DEF CopyStrings, CopyRecord, CopyFace, PageInv, CallTypes
<1>2. PICK n \in Nat : n = LookedAt
  BY <1>1
<1>3. CASE CopyStrings
  <2>1. /\ listed = <<>> /\ listed' = Append(listed, 0) /\ call = "info"
        /\ Slots(Strings) \subseteq out'
        /\ UNCHANGED <<call, total, unnamed, items, next>>
    BY <1>3 DEF CopyStrings, Copied, ListedInv, PageInv, replyVars
  <2>2. LookedAt' = 0
    BY <1>3, <2>1 DEF CopyStrings, PageInv, LookedAt, PageEnd
  <2>3. WantedTo(0)' = {} \cup {0} /\ Len(<<>>) = 0 /\ <<>> \in Seq(Nat)
    BY <2>1 DEF WantedTo
  <2>4. Promise!InOrder(listed', WantedTo(0)')
    <3>1. Promise!InOrder(Append(<<>>, 0), {} \cup {0})
      BY <2>3, InOrderEmpty, InOrderAppend
    <3> QED
      BY <2>1, <2>3, <3>1
  <2>5. Len(listed') = 1
    BY <2>1, <2>3, AppendProperties
  <2>6. \A i \in 1..1 : Whole(i)'
    BY <2>1, <2>3 DEF Whole, Slots
  <2> QED
    BY <2>2, <2>4, <2>5, <2>6 DEF Holds
<1>4. CASE CopyRecord \/ CopyFace
  <2>1. /\ pc = "copy" /\ items # <<>> /\ items' = Tail(items)
        /\ UNCHANGED <<call, total, unnamed, next>> /\ out \subseteq out'
    BY <1>4 DEF CopyRecord, CopyFace, Copied
  <2>2. LookedAt' = n + 1
    <3>1. Len(items) \in Nat /\ PageEnd \in Nat /\ PageEnd' = PageEnd
      BY <2>1 DEF PageEnd, CallTypes
    <3> QED
      BY <1>2, <2>1, <3>1, PageTail DEF LookedAt
  <2>3. Holds(n) /\ n + 1 \in 1..total /\ Head(items) = n + 1
    BY <1>2, <2>1, PageTail DEF ListedInv
  <2>4. CASE CopyRecord
    <3>1. listed' = Append(listed, n + 1) /\ Slots(Strings) \subseteq out'
      BY <2>3, <2>4 DEF CopyRecord, Copied
    <3>2. n + 1 \notin unnamed
      BY <2>4 DEF CopyRecord, PageInv
    <3> QED
      BY <2>1, <2>2, <2>3, <3>1, <3>2, HoldsNext
  <2>5. CASE CopyFace /\ Head(items) \in unnamed
    <3>1. UNCHANGED <<listed, out>>
      BY <2>5 DEF CopyFace
    <3>2. Holds(n)'
      BY <2>1, <2>3, <3>1, HoldsKept
    <3>3. WantedTo(n + 1)' = WantedTo(n)'
      <4>1. 1..(n + 1) = (1..n) \cup {n + 1}
        OBVIOUS
      <4> QED
        BY <2>1, <2>3, <2>5, <4>1 DEF WantedTo
    <3> QED
      BY <2>2, <3>2, <3>3 DEF Holds
  <2>6. CASE CopyFace /\ Head(items) \notin unnamed
    <3>1. /\ listed' = Append(listed, n + 1) /\ call = "info"
          /\ Slots({"name"}) \subseteq out'
      BY <2>3, <2>6 DEF CopyFace
    <3> QED
      BY <2>1, <2>2, <2>3, <2>6, <3>1, HoldsNext
  <2> QED
    BY <1>4, <2>4, <2>5, <2>6
<1> QED
  BY <1>3, <1>4

(* Every step of a call keeps its account of what is listed.               *)
LEMMA ListedStep ==
  ASSUME CallTypes, RefsInv, PageInv, ListedInv, AnyCall
  PROVE  ListedInv'
<1> USE DEF Step, askedVars, replyVars, cursorVars, resultVars
<1>1. CASE list_albums \/ list_album_pictures \/ get_picture_metadata
  <2>1. pc' = "send" /\ listed' = <<>> /\ cursor' = 0
    BY <1>1 DEF list_albums, list_album_pictures, get_picture_metadata, Begin,
       RefsInv
  <2> QED
    BY <2>1, HoldsNothing DEF ListedInv
<1>2. CASE Reply
  <2>1. /\ pc = "send" /\ pc' = IF call = "info" THEN "strings" ELSE "array"
        /\ UNCHANGED <<call, unnamed, listed, out>>
    BY <1>2 DEF Reply
  <2>2. PICK n \in Nat : n = cursor /\ n = LookedAt'
    BY <1>2, PageOfReply DEF CallTypes
  <2>3. call # "info" => Holds(n)'
    BY <2>1, <2>2, HoldsKept DEF ListedInv
  <2> QED
    BY <2>1, <2>2, <2>3 DEF ListedInv
<1>3. CASE RequestFails \/ Unexpected \/ GrowFails \/ CopyFaceFails
  <2>1. pc' = "put" /\ r' = -1
    BY <1>3 DEF RequestFails, Unexpected, GrowFails, CopyFaceFails
  <2> QED
    BY <2>1 DEF ListedInv
<1>4. CASE Grow
  <2>1. /\ pc = "array" /\ pc' = "copy" /\ out \subseteq out'
        /\ UNCHANGED <<call, unnamed, listed, total, items, next>>
    BY <1>4 DEF Grow
  <2>2. LookedAt' = LookedAt
    BY <2>1 DEF LookedAt, PageEnd
  <2>3. PICK n : n = LookedAt
    OBVIOUS
  <2>4. Holds(n)'
    BY <2>1, <2>3, HoldsKept DEF ListedInv
  <2> QED
    BY <2>1, <2>2, <2>3, <2>4 DEF ListedInv
<1>5. CASE CopyStrings \/ CopyRecord \/ CopyFace
  <2>1. pc' \in {"array", "copy"} \/ (pc' = "put" /\ r' = -1)
    BY <1>5 DEF CopyStrings, CopyRecord, CopyFace, Copied
  <2> QED
    BY <1>5, <2>1, CopyStep DEF ListedInv
<1>6. CASE EndOfPage
  <2>1. /\ pc = "copy" /\ pc' = "put" /\ items = <<>>
        /\ r' = IF next = 0 THEN 0 ELSE 1
        /\ cursor' = IF next = 0 THEN cursor ELSE next
        /\ UNCHANGED <<call, total, unnamed, next, listed, out>>
    BY <1>6 DEF EndOfPage
  <2>2. PICK n : n = IF next = 0 THEN total ELSE next
    OBVIOUS
  <2>3. LookedAt = n
    <3>1. Len(<<>>) = 0
      OBVIOUS
    <3>2. n \in Nat
      BY <2>2 DEF CallTypes
    <3> QED
      BY <2>1, <2>2, <3>1, <3>2 DEF LookedAt, PageEnd
  <2>4. Holds(n)'
    BY <2>1, <2>3, HoldsKept DEF ListedInv
  <2> QED
    BY <2>1, <2>2, <2>4 DEF ListedInv
<1>7. CASE Put
  <2>1. /\ pc = "put" /\ pc' = IF r = 1 THEN "send" ELSE "return"
        /\ UNCHANGED <<call, total, unnamed, listed, out, cursor, r>>
    BY <1>7 DEF Put
  <2>2. r = 1 => call # "info"
    BY <2>1 DEF ListedInv, PageInv
  <2>3. PICK n, m : n = cursor /\ m = total
    OBVIOUS
  <2>4. (r = 1 => Holds(n)') /\ (r = 0 => Holds(m)')
    BY <2>1, <2>3, HoldsKept DEF ListedInv
  <2> QED
    BY <2>1, <2>2, <2>3, <2>4 DEF ListedInv
<1>8. CASE Return \/ FreeResult
  <2>1. pc' = "idle" /\ pc \in {"return", "idle"}
    BY <1>8 DEF Return, FreeResult
  <2>2. CASE listed' = <<>>
    <3>1. Len(<<>>) = 0
      OBVIOUS
    <3>2. 1..0 = {}
      OBVIOUS
    <3> QED
      BY <2>1, <2>2, <3>1, <3>2 DEF ListedInv
  <2>3. CASE listed' # <<>>
    <3>1. pc = "return" /\ r = 0 /\ UNCHANGED <<call, unnamed, listed, out>>
      BY <1>8, <2>3 DEF Return, FreeResult
    <3>2. \A i \in 1..Len(listed) : Whole(i)
      BY <3>1 DEF ListedInv, Holds
    <3> QED
      BY <2>1, <3>1, <3>2 DEF ListedInv, Whole
  <2> QED
    BY <2>2, <2>3
<1> QED
  BY <1>1, <1>2, <1>3, <1>4, <1>5, <1>6, <1>7, <1>8 DEF AnyCall, CallStep

-------------------------------------------------------------------------------
(* A thread that makes or frees its client takes no part in the call.      *)
LEMMA CallKept ==
  ASSUME UNCHANGED browseVars
  PROVE  /\ CallTypes => CallTypes' /\ (RefsInv => RefsInv')
         /\ HeapInv => HeapInv'
         /\ PageInv => PageInv'
         /\ ListedInv => ListedInv'
<1> USE DEF browseVars, askedVars, replyVars, cursorVars, resultVars
<1>1. CallTypes => CallTypes'
  BY DEF CallTypes
<1>2. (RefsInv => RefsInv') /\ (HeapInv => HeapInv')
  BY DEF RefsInv, HeapInv, Own
<1>3. LookedAt' = LookedAt /\ (PageInv => PageInv')
  BY DEF PageInv, LookedAt, PageEnd
<1>4. ListedInv => ListedInv'
  BY <1>3 DEF ListedInv, Holds, Whole, WantedTo
<1> QED
  BY <1>1, <1>2, <1>3, <1>4

(* Nothing is allocated before the first step.                             *)
LEMMA Initially == Init => Inv
<1> USE ClientAssumption, BrowseAssumption
    DEF ClientAssumption, BrowseAssumption, Init, ClientInit
<1>1. Init => CallTypes /\ RefsInv /\ HeapInv
  BY DEF CallTypes, RefsInv, HeapInv, Own
<1>2. Init => ClientTypes /\ OwnedInv
  BY DEF ClientTypes, OwnedInv, Stages
<1>3. Init => CurlInv
  <2>1. Init => Users = {}
    BY DEF Users
  <2>2. QED
    BY <2>1, FS_EmptySet DEF CurlInv
<1>4. Init => PageInv /\ ListedInv
  <2>1. Len(<<>>) = 0
    OBVIOUS
  <2>2. 1..0 = {}
    OBVIOUS
  <2> QED
    BY <2>1, <2>2 DEF PageInv, ListedInv
<1>5. QED
  BY <1>1, <1>2, <1>3, <1>4 DEF Inv, ClientInv

(* Every step of a client or of the call keeps the invariant.              *)
LEMMA Always == Inv /\ [Next]_vars => Inv'
<1> SUFFICES ASSUME Inv, [Next]_vars PROVE Inv'
  OBVIOUS
<1>1. CASE UNCHANGED clientVars /\ AnyCall
  <2>1. ClientInv'
    BY <1>1 DEF Inv, clientVars, ClientInv, ClientTypes, OwnedInv, CurlInv,
           Users
  <2>2. QED
    BY <1>1, <2>1, CallTypesStep, RefsStep, HeapStep, PageStep, ListedStep
    DEF Inv
<1>2. CASE \E o \in Owners : ClientStep(o) /\ UNCHANGED browseVars
  <2>1. CallTypes' /\ RefsInv' /\ HeapInv' /\ PageInv' /\ ListedInv'
    BY <1>2, CallKept DEF Inv
  <2>2. ClientInv'
    BY <1>2, ClientInvStep, CurlStep DEF Inv, ClientInv
  <2>3. QED
    BY <2>1, <2>2 DEF Inv
<1>3. CASE UNCHANGED vars
  <2>1. UNCHANGED clientVars /\ UNCHANGED browseVars
    BY <1>3 DEF vars
  <2>2. ClientInv'
    BY <2>1 DEF Inv, clientVars, ClientInv, ClientTypes, OwnedInv, CurlInv,
           Users
  <2>3. QED
    BY <2>1, <2>2, CallKept DEF Inv
<1>4. QED
  BY <1>1, <1>2, <1>3 DEF Next, AnyCall

(* So it holds in every reachable state.                                   *)
LEMMA Invariance == Spec => []Inv
  BY Initially, Always, PTL DEF Spec

(* Types, and with them that no reference to a cursor is given up twice.   *)
THEOREM BrowseTypes == Spec => []TypeOK
<1>1. Inv => TypeOK
  BY CurlCounts DEF Inv, CallTypes, TypeOK, ClientInv, ClientTypes
<1>2. QED
  BY <1>1, Invariance, PTL

(* However many threads make and free clients and whatever allocation      *)
(* fails in between, libcurl stays up for those that have a handle and     *)
(* comes down after the last.                                              *)
THEOREM CurlCorrect == Spec => []CurlOutlivesClients
<1>1. Inv => CurlOutlivesClients
  <2>1. SUFFICES ASSUME Inv PROVE CurlOutlivesClients
    OBVIOUS
  <2>2. ASSUME NEW o \in Owners, <<o, "curl">> \in blocks
        PROVE  curl_refs > 0
    <3>1. o \in Users
      BY <2>1, <2>2 DEF Inv, ClientInv, OwnedInv, Handles, Users
    <3>2. QED
      BY <2>1, <3>1, CurlCounts DEF Inv, ClientInv
  <2>3. (\A o \in Owners : stage[o] = "none") => curl_refs = 0
    BY <2>1, CurlCounts DEF Inv, ClientInv, Users
  <2>4. QED
    BY <2>2, <2>3 DEF CurlOutlivesClients
<1>2. QED
  BY <1>1, Invariance, PTL

(* For any album and size of a page, and wherever the call fails: what is  *)
(* freed is what was allocated, and nothing but the result is left.        *)
THEOREM LeakFree == Spec => []NothingLeaks
<1>1. Inv => NothingLeaks
  <2>1. SUFFICES ASSUME Inv PROVE NothingLeaks
    OBVIOUS
  <2>2. pc = "return" => out = heap \ Own("req")
    BY <2>1 DEF Inv, HeapInv, Own
  <2>3. pc = "idle" => out = heap
    BY <2>1 DEF Inv, HeapInv, Own
  <2>4. pc = "idle" => \A c \in DOMAIN refs : refs[c] = 0
    BY <2>1 DEF Inv, RefsInv
  <2>5. ASSUME NEW o \in Owners, stage[o] = "none", NEW b \in blocks
        PROVE  b[1] # o
    <3>1. SUFFICES ASSUME b[1] = o PROVE FALSE
      OBVIOUS
    <3>2. b = <<o, b[2]>> /\ b[2] \in Names
      BY <2>1, <2>5, <3>1 DEF Inv, ClientInv, OwnedInv
    <3>3. fields[o] = {}
      BY <2>1, <2>5 DEF Inv, ClientInv, OwnedInv
    <3>4. QED
      BY <2>1, <2>5, <3>2, <3>3 DEF Inv, ClientInv, OwnedInv, Names
  <2>6. QED
    BY <2>2, <2>3, <2>4, <2>5 DEF NothingLeaks
<1>2. QED
  BY <1>1, Invariance, PTL

(* The cursor sent for a page has not gone with the reply it came in.      *)
THEOREM CursorCorrect == Spec => []CursorOutlivesItsPage
<1>1. Inv => CursorOutlivesItsPage
  BY BrowseAssumption
  DEF BrowseAssumption, Inv, CallTypes, RefsInv, CursorOutlivesItsPage
<1>2. QED
  BY <1>1, Invariance, PTL

-------------------------------------------------------------------------------
(* While a call is under way, and before it and after it has failed, the   *)
(* caller holds no record.                                                 *)
LEMMA HeldNothing ==
  /\ pc # "idle" \/ listed = <<>> => Held = <<>>
  /\ pc' # "idle" \/ listed' = <<>> => Held' = <<>>
<1>1. 1..Len(<<>>) = {}
  OBVIOUS
<1>2. ASSUME NEW f, f = [i \in {} |-> f[i]]
      PROVE  f = <<>>
  BY <1>2
<1>3. listed = <<>> => Held = <<>>
  BY <1>1, <1>2 DEF Held
<1>4. listed' = <<>> => Held' = <<>>
  BY <1>1, <1>2 DEF Held
<1> QED
  BY <1>3, <1>4 DEF Held

(* A result with nothing to free has no record.                            *)
LEMMA NothingToFree ==
  ASSUME CallTypes, ListedInv, pc = "idle", out = {}
  PROVE  listed = <<>>
<1>1. SUFFICES ASSUME listed # <<>> PROVE FALSE
  OBVIOUS
<1>2. 1 \in 1..Len(listed)
  BY <1>1 DEF CallTypes
<1>3. Whole(1)
  BY <1>2 DEF ListedInv
<1>4. PICK name \in Strings : TRUE
  BY BrowseAssumption DEF BrowseAssumption
<1>5. <<1, name>> \in {1} \X Strings /\ ~(1 > 1)
  BY <1>4
<1> QED
  BY <1>3, <1>5 DEF Whole

(* The end of a call hands over everything or nothing.                     *)
LEMMA ReturnKeepsPromise ==
  ASSUME CallTypes, ListedInv, Return
  PROVE  /\ \/ status' = "ok" /\ Promise!InOrder(Held', Wanted)
            \/ status' = "failed" /\ Held' = <<>>
         /\ Wanted' = Wanted
<1>1. /\ pc = "return" /\ pc' = "idle" /\ UNCHANGED <<call, total, unnamed>>
      /\ IF r = 0 THEN status' = "ok" /\ UNCHANGED <<listed, out>>
                  ELSE status' = "failed" /\ listed' = <<>>
  BY DEF Return, Step, askedVars, resultVars
<1>2. Wanted' = Wanted /\ WantedTo(total) = Wanted
  BY <1>1 DEF Wanted, WantedTo
<1>3. CASE r = 0
  <2>1. Promise!InOrder(listed, Wanted) /\ \A i \in 1..Len(listed) : Whole(i)
    BY <1>1, <1>2, <1>3 DEF ListedInv, Holds
  <2>2. \A i \in 1..Len(listed) : Whole(i)'
    BY <1>1, <1>3, <2>1 DEF Whole
  <2>3. Held' = [i \in 1..Len(listed) |-> listed[i]]
    BY <1>1, <1>3, <2>2 DEF Held
  <2>4. Held' = listed
    BY <2>3 DEF CallTypes
  <2> QED
    BY <1>1, <1>2, <1>3, <2>1, <2>4
<1>4. CASE r # 0
  BY <1>1, <1>2, <1>4, HeldNothing
<1> QED
  BY <1>3, <1>4

(* A step of the call is a step of Listing, or nothing of it.              *)
LEMMA PromiseStep ==
  ASSUME CallTypes, ListedInv, AnyCall
  PROVE  [Promise!Next]_Promise!vars
<1> USE DEF Step
<1>1. CASE list_albums \/ list_album_pictures \/ get_picture_metadata
  <2>1. /\ pc = "idle" /\ pc' = "send" /\ out = {} /\ status' = "none"
        /\ total' \in 0..MaxRecords
    BY <1>1 DEF list_albums, list_album_pictures, get_picture_metadata, Begin
  <2>2. Held = <<>> /\ Held' = <<>>
    BY <2>1, NothingToFree, HeldNothing
  <2>3. Wanted' \subseteq Nat
    BY <2>1, BrowseAssumption DEF BrowseAssumption, Wanted
  <2> QED
    BY <2>1, <2>2, <2>3 DEF Promise!Next, Promise!Call
<1>2. CASE Return
  <2>1. pc = "return" /\ pc' = "idle"
    BY <1>2 DEF Return
  <2> QED
    BY <1>2, <2>1, ReturnKeepsPromise DEF Promise!Next, Promise!Return
<1>3. CASE FreeResult
  <2>1. /\ pc = "idle" /\ pc' = "idle" /\ listed' = <<>>
        /\ UNCHANGED <<call, total, unnamed, status>>
    BY <1>3 DEF FreeResult, askedVars
  <2>2. Held' = <<>>
    BY <2>1, HeldNothing
  <2> QED
    BY <2>1, <2>2 DEF Promise!Next, Promise!Free, Wanted
<1>4. CASE CallStep /\ ~ Return
  <2>1. pc # "idle" /\ pc' # "idle" /\ UNCHANGED <<call, total, unnamed, status>>
    BY <1>4 DEF CallStep, Reply, RequestFails, Unexpected, Grow, GrowFails,
       CopyStrings, CopyRecord, CopyFace, CopyFaceFails, Copied, EndOfPage,
       Put, askedVars
  <2>2. Held = <<>> /\ Held' = <<>>
    BY <2>1, HeldNothing
  <2> QED
    BY <2>1, <2>2 DEF Promise!vars, Wanted
<1> QED
  BY <1>1, <1>2, <1>3, <1>4 DEF AnyCall

(* Whatever the number of records, of their strings, and the size of a     *)
(* page, and wherever the call fails: the caller gets everything the       *)
(* server has, once and in its order, no string NULL, or nothing           *)
(* (AllOrNothing).                                                         *)
THEOREM ListingCorrect == Spec => AllOrNothing
<1>1. Init => Promise!Init
  <2>1. SUFFICES ASSUME Init PROVE Promise!Init
    OBVIOUS
  <2>2. Held = <<>>
    BY <2>1, HeldNothing DEF Init
  <2>3. Wanted = {}
    BY <2>1 DEF Init, Wanted
  <2> QED
    BY <2>1, <2>2, <2>3 DEF Init, Promise!Init
<1>2. Inv /\ [Next]_vars => [Promise!Next]_Promise!vars
  <2>1. SUFFICES ASSUME Inv, [Next]_vars PROVE [Promise!Next]_Promise!vars
    OBVIOUS
  <2>2. CASE UNCHANGED browseVars
    BY <2>2 DEF browseVars, askedVars, resultVars, Promise!vars, Held, Wanted,
       Whole
  <2>3. CASE AnyCall
    BY <2>1, <2>3, PromiseStep DEF Inv
  <2> QED
    BY <2>1, <2>2, <2>3 DEF Next, AnyCall, vars
<1>3. QED
  BY <1>1, <1>2, Invariance, PTL DEF Spec, AllOrNothing, Promise!Spec
==============================================================================
