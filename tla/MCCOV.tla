--------------------------------- MODULE MCCOV ---------------------------------
(* A device with a commandable analog output and a binary input.            *)
EXTENDS COV

MCInitialObjects == [o \in {"ao"} |-> NewObject("A", 0)]

MCCreate == {[oid |-> "bi", name |-> "B", pv |-> 0], [oid |-> "ao", name |-> NULL, pv |-> 0]}

W(o, p, v, q) == [oid |-> o, prop |-> p, value |-> v, priority |-> q, index |-> NULL]

MCWrites ==
       {W("ao", "present_value", v, 1) : v \in {2, NULL}}
  \cup {W("ao", "present_value", v, NULL) : v \in {1, NULL}}
  \cup {W("ao", "present_value", 1, 2), W("ao", "present_value", 1, 4),
        W("ao", "present_value", 3, 1),
        W("ao", "cov_increment", 2, NULL), W("ao", "cov_increment", 0, NULL)}
  \cup {W("bi", "present_value", 1, NULL), W("bi", "cov_increment", 1, NULL)}
  \cup {W("bi", "out_of_service", v, NULL) : v \in BOOLEAN}
  \cup {W("bi", "object_name", n, NULL) : n \in {"A", "C"}}

MCWriteLists ==
  {<<W("bi", "out_of_service", FALSE, NULL), W("bi", "present_value", 0, NULL)>>,
   <<W("ao", "relinquish_default", 1, NULL), W("ao", "present_value", 3, NULL)>>}

MCLocalWrites == {W("ao", "present_value", 1, NULL)}

\* The two references of a request have increments of their own.
MCSubscribeLists ==
  LET ref(o, i) == [key |-> [who |-> "s", oid |-> o, prop |-> "present_value"],
                    increment |-> i]
  IN {<<ref("ao", NULL), ref("bi", NULL)>>, <<ref("ao", 2), ref("bi", NULL)>>,
      <<ref("bi", NULL), ref("ao", 2)>>}

\* The writes are among those that NamesIndexedTheorem is about.
ASSUME RenamesAssumption == PlainRenames
=============================================================================
