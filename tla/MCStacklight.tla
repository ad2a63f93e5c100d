---------------------------- MODULE MCStacklight ----------------------------
(* Requests for the runs of Stacklight: two steady colors and a flash.       *)
EXTENDS Stacklight

Notes == {[colors |-> {"R"}, forever |-> TRUE], [colors |-> {"Y", "G"}, forever |-> TRUE],
          [colors |-> {"R"}, forever |-> FALSE]}
=============================================================================
