----------------------------- MODULE Documents -----------------------------
(***************************************************************************)
(* A document that is put together and changed by calls of cJSON.          *)
(*                                                                         *)
(* bound: two elements to a document, four documents in it.                *)
(***************************************************************************)
EXTENDS JsonText

CONSTANTS
  Leaves,        \* the documents without elements
  MemberNames    \* the names of members

VARIABLE doc

DocInit == doc = Array(<<>>)

RECURSIVE WeightOf(_)
WeightOf(d) ==
  CASE d.type = "array" -> FoldLeft(LAMBDA n, k : n + WeightOf(k), 1, d.kids)
    [] d.type = "object" -> FoldLeft(LAMBDA n, m : n + WeightOf(m.item), 1, d.members)
    [] OTHER -> 1

Light(d) == WeightOf(d) <= 4 /\ doc' = d

EditArray ==
  /\ doc.type = "array"
  /\ \/ \E d \in Leaves : cJSON_GetArraySize(doc) < 2 /\ Light(cJSON_AddItemToArray(doc, d))
     \/ \E i \in 0 .. 1 :
          \/ Light(cJSON_DeleteItemFromArray(doc, i))
          \/ \E d \in Leaves : Light(cJSON_ReplaceItemInArray(doc, i, d))

EditObject ==
  /\ doc.type = "object"
  /\ \E name \in MemberNames :
       \/ \E d \in Leaves :
            /\ Len(doc.members) < 2
            /\ Light(cJSON_AddItemToObject(doc, name, d))
       \/ Light(cJSON_DeleteItemFromObject(doc, name))
       \/ \E d \in Leaves : Light(cJSON_ReplaceItemInObject(doc, name, d))

Wrap ==
  \/ Light(cJSON_AddItemToArray(Array(<<>>), doc))
  \/ \E name \in MemberNames : Light(cJSON_AddItemToObject(Object(<<>>), name, doc))

DocNext == EditArray \/ EditObject \/ Wrap
DocSpec == DocInit /\ [][DocNext]_doc

\* Whatever the document, its two texts read as the document.
DocumentReadsBack ==
  cJSON_Parse(cJSON_Print(doc)) = doc /\ cJSON_Parse(cJSON_PrintUnformatted(doc)) = doc
=============================================================================
