---------------------------- MODULE MCStrictJson ----------------------------
(***************************************************************************)
(* Every sequence of up to MaxLen tokens, and longer well-nested ones.     *)
(***************************************************************************)
EXTENDS StrictJson

CONSTANT MaxLen

Nested ==
    { <<"{", "a", "{", "a", "scalar", "}", "b", "{", "a", "scalar", "}", "}">>,
      <<"{", "a", "{", "b", "scalar", "}", "b", "scalar", "a", "scalar", "}">>,
      <<"[", "{", "a", "scalar", "}", "{", "a", "scalar", "}", "]">>,
      <<"{", "a", "[", "{", "b", "scalar", "b", "scalar", "}", "]", "}">>,
      <<"[", "[", "[", "[", "]", "]", "]", "]">>,
      <<"[", "[", "[", "scalar", "scalar", "]", "]", "]">> }

AllDocuments == BoundedSeq(Keys \union {"[", "]", "{", "}", "scalar"}, MaxLen) \union Nested

MCDocuments == AllDocuments
=============================================================================
