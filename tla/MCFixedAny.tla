------------------------------ MODULE MCFixedAny ------------------------------
(* TLC instance of FixedAny: three elements of a std::vector<fixed_any<96>>,  *)
(* which are 176 bytes each (the buffer, two pointers and two std::functions) *)
(* and so differ in what they are aligned to beyond max_align_t. The types: a *)
(* pointer; one that is over-aligned and fits; one that fits by its size but  *)
(* not with its alignment; and one that fits exactly.                         *)
EXTENDS FixedAny, TLC

CONSTANTS v1, v2, v3

MCStorage == "a" :> 0 @@ "b" :> 176 @@ "c" :> 352
MCSizeof  == "pointer" :> 8 @@ "wide" :> 64 @@ "block" :> 96 @@ "bytes" :> 96
MCAlignof == "pointer" :> 8 @@ "wide" :> 32 @@ "block" :> 32 @@ "bytes" :> 1

=============================================================================
