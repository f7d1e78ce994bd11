----------------------------- MODULE StrictJson -----------------------------
(***************************************************************************)
(* strict_json.rs parse_strict: the visitor that serde_json's deserializer *)
(* drives over a document, one action per callback.  A document is a       *)
(* sequence of tokens: brackets, "scalar", and the members of Keys for the *)
(* keys of objects; commas and colons are the deserializer's business.     *)
(***************************************************************************)
EXTENDS Symbolic, SequencesExt

CONSTANTS
    Documents, Keys,
    MaxJsonNodes,     \* limits.rs MAX_JSON_NODES
    MaxDepth          \* serde_json's recursion guard

ASSUME StrictJsonAssumption ==
    /\ MaxJsonNodes \in Nat \ {0} /\ MaxDepth \in Nat
    /\ Keys \cap {"[", "]", "{", "}", "scalar"} = {}
    /\ \A d \in Documents : d \in Seq(Keys \union {"[", "]", "{", "}", "scalar"})

VARIABLES
    doc,       \* the document
    read,      \* how many tokens were read
    open,      \* the containers being visited: [type, keys], the innermost last
    owed,      \* TRUE when a value must follow: at the start, and after a key
    nodes,     \* the budget cell
    result     \* "Pending", Ok or the error

vars == <<doc, read, open, owed, nodes, result>>

Init ==
    /\ doc \in Documents
    /\ read = 0 /\ open = <<>> /\ owed = TRUE /\ nodes = 0
    /\ result = "Pending"

\* The deserializer's view: the next token, and whether a value may stand here.
HasToken == read < Len(doc)
Token == doc[read + 1]
Inside(type) == open # <<>> /\ Last(open).type = type
ValueAllowed == owed \/ Inside("array")

\* After the visitor or the deserializer fails: which of the two errors it is.
Fail == result' = IF nodes' > MaxJsonNodes THEN "TooManyJsonNodes" ELSE "Json"

\* charge(): one more value was produced.
Charge == nodes' = nodes + 1

VisitScalar ==
    /\ result = "Pending" /\ HasToken
    /\ Token = "scalar" /\ ValueAllowed
    /\ Charge
    /\ IF nodes' > MaxJsonNodes THEN Fail ELSE UNCHANGED result
    /\ read' = read + 1 /\ owed' = FALSE
    /\ UNCHANGED <<doc, open>>

\* Mutated form of VisitContainer: only scalars are charged.
VisitContainerFree ==
    /\ result = "Pending" /\ HasToken
    /\ Token \in {"[", "{"} /\ ValueAllowed /\ Len(open) < MaxDepth
    /\ open' = Append(open, [type |-> IF Token = "[" THEN "array" ELSE "object", keys |-> {}])
    /\ read' = read + 1 /\ owed' = FALSE
    /\ UNCHANGED <<doc, nodes, result>>

\* visit_seq and visit_map, up to their loops: an object starts with no keys.
VisitContainer ==
    /\ result = "Pending" /\ HasToken
    /\ Token \in {"[", "{"} /\ ValueAllowed /\ Len(open) < MaxDepth
    /\ Charge
    /\ IF nodes' > MaxJsonNodes THEN Fail ELSE UNCHANGED result
    /\ open' = Append(open, [type |-> IF Token = "[" THEN "array" ELSE "object", keys |-> {}])
    /\ read' = read + 1 /\ owed' = FALSE
    /\ UNCHANGED doc

\* Mutated form of VisitKey: a key is compared with the last one only.
VisitKeyAdjacent ==
    /\ result = "Pending" /\ HasToken
    /\ Token \in Keys /\ Inside("object") /\ ~owed
    /\ read' = read + 1
    /\ IF Token \in Last(open).keys
       THEN UNCHANGED nodes /\ Fail /\ UNCHANGED <<open, owed>>
       ELSE /\ open' = [open EXCEPT ![Len(open)].keys = {Token}]
            /\ owed' = TRUE
            /\ UNCHANGED <<nodes, result>>
    /\ UNCHANGED doc

VisitKey ==
    /\ result = "Pending" /\ HasToken
    /\ Token \in Keys /\ Inside("object") /\ ~owed
    /\ read' = read + 1
    /\ IF Token \in Last(open).keys
       THEN UNCHANGED nodes /\ Fail /\ UNCHANGED <<open, owed>>
       ELSE /\ open' = [open EXCEPT ![Len(open)].keys = @ \union {Token}]
            /\ owed' = TRUE
            /\ UNCHANGED <<nodes, result>>
    /\ UNCHANGED doc

Closes ==
    \/ Token = "]" /\ Inside("array")
    \/ Token = "}" /\ Inside("object") /\ ~owed

EndContainer ==
    /\ result = "Pending" /\ HasToken
    /\ Closes
    /\ open' = Front(open)
    /\ read' = read + 1
    /\ UNCHANGED <<doc, owed, nodes, result>>

\* The deserializer stops: a token that cannot stand here, nesting too deep, or no token.
Complete == open = <<>> /\ ~owed

Malformed ==
    /\ result = "Pending" /\ ~Complete
    /\ HasToken =>
         /\ ~Closes
         /\ ~(Token \in Keys /\ Inside("object") /\ ~owed)
         /\ ~(Token = "scalar" /\ ValueAllowed)
         /\ ~(Token \in {"[", "{"} /\ ValueAllowed /\ Len(open) < MaxDepth)
    /\ UNCHANGED nodes /\ Fail
    /\ UNCHANGED <<doc, read, open, owed>>

\* `de.end()`: nothing may follow the value.
End ==
    /\ result = "Pending" /\ Complete
    /\ result' = IF HasToken THEN "Json" ELSE Ok
    /\ UNCHANGED <<doc, read, open, owed, nodes>>

Next == VisitScalar \/ VisitContainer \/ VisitKey \/ EndContainer \/ Malformed \/ End

Spec == Init /\ [][Next]_vars

-----------------------------------------------------------------------------
\* The grammar, by the spans of tokens that are a value, elements or members.
Spans(text) ==
    {s \in {"value", "elements", "members"} \X (1..(Len(text) + 1)) \X (0..Len(text)) : s[2] <= s[3] + 1}

Derived(text) ==
    LET is[s \in Spans(text)] ==
            LET i == s[2]
                j == s[3]
            IN  CASE s[1] = "value" ->
                        \/ i = j /\ text[i] = "scalar"
                        \/ i < j /\ text[i] = "[" /\ text[j] = "]" /\ is[<<"elements", i + 1, j - 1>>]
                        \/ i < j /\ text[i] = "{" /\ text[j] = "}" /\ is[<<"members", i + 1, j - 1>>]
                  [] s[1] = "elements" ->
                        i > j \/ \E k \in i..j : is[<<"value", i, k>>] /\ is[<<"elements", k + 1, j>>]
                  [] s[1] = "members" ->
                        \/ i > j
                        \/ /\ text[i] \in Keys
                           /\ \E k \in (i + 1)..j : is[<<"value", i + 1, k>>] /\ is[<<"members", k + 1, j>>]
    IN  is

Parses == Derived(doc)[<<"value", 1, Len(doc)>>]

Count(tokens, n) == Cardinality({i \in 1..n : doc[i] \in tokens})
DepthAt(n) == Count({"[", "{"}, n) - Count({"]", "}"}, n)

\* Two keys are of one object when no bracket between them closes it.
SameObject(i, j) == DepthAt(i) = DepthAt(j) /\ \A k \in i..j : DepthAt(k) >= DepthAt(i)

Strict ==
    /\ \A i, j \in 1..Len(doc) :
          i < j /\ doc[i] \in Keys /\ doc[j] \in Keys /\ SameObject(i, j) => doc[i] # doc[j]
    /\ Count({"scalar", "[", "{"}, Len(doc)) <= MaxJsonNodes
    /\ \A n \in 1..Len(doc) : DepthAt(n) <= MaxDepth

(***************************************************************************)
(* parse_strict accepts exactly the documents that are JSON, repeat no key *)
(* within one object at any level, and stay within the node budget and the *)
(* nesting depth; the same key in a sibling, in an outer or in an inner    *)
(* object is no repeat.                                                    *)
(***************************************************************************)
AcceptsExactlyStrict ==
    /\ result = Ok => Parses /\ Strict
    /\ result \in {"Json", "TooManyJsonNodes"} => ~(Parses /\ Strict)

(***************************************************************************)
(* The tree never outgrows the budget by more than the node that exhausts  *)
(* it, and "the budget cell distinguishes budget exhaustion from an        *)
(* ordinary parse failure": each error is returned for its own reason.     *)
(***************************************************************************)
BudgetIsHonest ==
    /\ nodes = Count({"scalar", "[", "{"}, read)
    /\ nodes <= MaxJsonNodes + 1
    /\ result = "TooManyJsonNodes" <=> nodes > MaxJsonNodes
=============================================================================
