------------------------------ MODULE MCRadar ------------------------------
(* One instance of Radar: robots.txt files and vocabularies of small size. *)
EXTENDS Radar

CONSTANT s1

MCRpm == [s \in Portals |-> IF s = s1 THEN 1 ELSE 0]
\* Two polls exhaust a pool of two with one listing each; only with a third
\* connection can they come to hold rows that the other one wants.
MCMaxBatch == [n \in PoolSizes |-> n - 1]
MCVocabulary == [gaya |-> "Gaya"]
MCAliases == [bodhgaya |-> "Gaya"]

\* The alias of a region with a value that rounds to nothing, an incomplete
\* listing of the same tender with the least value, another tender.
MCRawListings == {[id |-> "i1", region |-> "bodhgaya", value |-> 4],
                  [id |-> "i1", region |-> Absent, value |-> 5],
                  [id |-> "i2", region |-> "gaya", value |-> Absent]}

Line(allow, prefix, len) == [allow |-> allow, prefix |-> prefix, len |-> len]
Star(rules) == <<[agents |-> {"*"}, rules |-> rules]>>

\* No rule for everybody; a shorter Allow after the Disallow that counts; an empty
\* Disallow, a rule for another path and a longer Allow before a Disallow.
MCRobotsFiles ==
  {<<[agents |-> {"otherbot"}, rules |-> <<Line(FALSE, TRUE, 2)>>]>>,
   Star(<<Line(FALSE, TRUE, 2), Line(TRUE, TRUE, 1)>>),
   Star(<<Line(FALSE, TRUE, 0), Line(FALSE, FALSE, 3), Line(TRUE, TRUE, 2), Line(FALSE, TRUE, 1)>>)}
=============================================================================
