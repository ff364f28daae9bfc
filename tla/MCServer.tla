------------------------------ MODULE MCServer ------------------------------
(* Instances of Server for TLC. *)
EXTENDS Server

\* The first and last members of each range and their neighbours outside.
MCAddresses ==
  {V4(p) : p \in {0, 2559, 2560, 2815, 2816, 25663, 25664, 25727, 25728, 32511, 32512,
                  43518, 43519, 44047, 44048, 44063, 44064, 49320, 49321}}
    \cup {V6(p) : p \in {0, 64511, 64512, 65023, 65024, 65151, 65152, 65215, 65216}}
    \cup {Localhost6}
=============================================================================
