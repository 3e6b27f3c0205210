---------------------------- MODULE MCParsePipeline ----------------------------
(* The instance of ParsePipeline that TLC checks. *)
EXTENDS ParsePipeline

(* A document with two candidate spans around a paragraph without a modal     *)
(* verb, one with none, and one whose instrument the schemas do not list.     *)
MCDocuments == {"long", "empty", "unlisted"}

MCKnown == {"long", "empty"}

(* No modal verb, actor, deadline or mention. *)
Plain == [modals |-> {}, actors |-> {}, action |-> <<>>, rest |-> <<>>, mentions |-> <<>>]

(* The modal verbs of the first are found in another order by the detector    *)
(* and the agent; the deadline of the last is a date after a period.          *)
MCParagraphs ==
    [d \in MCDocuments |->
        CASE d = "long" ->
                <<[Plain EXCEPT !.modals = {"may", "should"}, !.action = <<"hour">>,
                                !.rest = <<"date">>,
                                !.mentions = <<"Article 9", "Article 4", "Article 9">>],
                  [Plain EXCEPT !.actors = {"operator"}, !.action = <<"date">>],
                  [Plain EXCEPT !.modals = {"may"}, !.actors = {"operator", "manufacturer"},
                                !.action = <<"day", "date">>]>>
          [] d = "empty"    -> <<Plain>>
          [] d = "unlisted" -> <<Plain, [Plain EXCEPT !.modals = {"shall", "must"}]>>]
================================================================================
