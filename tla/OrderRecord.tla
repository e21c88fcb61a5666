----------------------------- MODULE OrderRecord -----------------------------
(***************************************************************************)
(* The adapter's records in an order's label and comment                   *)
(* (common/order_record.py).                                               *)
(*                                                                         *)
(* A text is a sequence of tokens: the marker, the separators, the two     *)
(* keys with their "=", letters, and a space for what is not printable     *)
(* ASCII.  A token counts as one character.                                *)
(***************************************************************************)
EXTENDS Integers, Sequences, SequencesExt

CONSTANTS
    LabelMax,     \* LABEL_MAX
    CommentMax,   \* COMMENT_MAX
    IdMax         \* CLIENT_ORDER_ID_MAX

ASSUME RecordAssumption == {LabelMax, CommentMax, IdMax} \subseteq Nat

Marker == "ntca1"
Separator == "|"
KeySL == "sl="
KeyTP == "tp="

NoId == <<>>
NoLegs == [sl |-> NoId, tp |-> NoId]          \* LegIds(None, None)
NotARecord == [sl |-> <<" ">>, tp |-> NoId]   \* None: no leg id holds a space

\* _is_recordable()
IsRecordable(id) == id # <<>> /\ \A i \in DOMAIN id : id[i] \notin {Separator, " "}

\* check_client_order_id()
FitsClientOrderId(id) == IsRecordable(id) /\ Len(id) <= IdMax

\* encode_label(), for an id it takes.
EncodeLabel(id) == <<Marker, ":">> \o id
FitsLabel(id) == IsRecordable(id) /\ Len(EncodeLabel(id)) <= LabelMax

\* parse_label(); NoId for a text that is no record.
ParseLabel(label) ==
    LET id == SubSeq(label, 3, Len(label)) IN
    IF Len(label) <= LabelMax /\ IsPrefix(<<Marker, ":">>, label) /\ IsRecordable(id)
    THEN id ELSE NoId

\* encode_comment()
EncodeComment(legs) ==
    LET part(key, id) == IF id = NoId THEN <<>> ELSE <<Separator, key>> \o id
    IN <<Marker>> \o part(KeySL, legs.sl) \o part(KeyTP, legs.tp)
FitsComment(legs) ==
    /\ \A id \in {legs.sl, legs.tp} \ {NoId} : IsRecordable(id)
    /\ Len(EncodeComment(legs)) <= CommentMax

\* comment.split("|")
Fields(text) ==
    LET cuts == SetToSortSeq({0, Len(text) + 1} \cup {i \in DOMAIN text : text[i] = Separator}, <)
    IN [k \in 1..Len(cuts) - 1 |-> SubSeq(text, cuts[k] + 1, cuts[k + 1] - 1)]

\* The fields of a comment as a dict: the last of a key counts.
Found(items, key) ==
    LET of == {k \in DOMAIN items : Head(items[k]) = key} IN
    IF of = {} THEN NoId ELSE Tail(items[CHOOSE k \in of : \A j \in of : j <= k])
IsField(item) == item # <<>> /\ Head(item) \in {KeySL, KeyTP} /\ IsRecordable(Tail(item))

\* Mutant: any text made of the fields counts, whatever their order.
ParseCommentLoose(comment) ==
    LET fields == Fields(comment)
        items == Tail(fields)
    IN IF /\ Len(comment) <= CommentMax /\ fields[1] = <<Marker>>
          /\ \A k \in DOMAIN items : IsField(items[k])
       THEN [sl |-> Found(items, KeySL), tp |-> Found(items, KeyTP)] ELSE NotARecord

\* parse_comment(): only the exact text EncodeComment writes counts.
ParseComment(comment) ==
    LET fields == Fields(comment)
        items == Tail(fields)
        taken == /\ Len(comment) <= CommentMax /\ fields[1] = <<Marker>>
                 /\ \A k \in DOMAIN items : IsField(items[k])
        legs == IF taken THEN [sl |-> Found(items, KeySL), tp |-> Found(items, KeyTP)]
                ELSE NotARecord
    IN IF taken /\ EncodeComment(legs) = comment THEN legs ELSE NotARecord

=============================================================================
