------------------------ MODULE MCDocumentRegistration ------------------------
(* The instance of DocumentRegistration that TLC checks. *)
EXTENDS DocumentRegistration

(* All texts of up to five lines over these. *)
MCLines == {<<"article", 1>>, <<"article", 2>>, <<"paragraph", 1>>, <<"annex", 0>>,
            <<"text", 0>>, <<"blank", 0>>, <<"space", 0>>}

MCTexts == UNION {[1..n -> MCLines] : n \in 0..5}

MCArtifacts == {"amended", "clash", "scan", "leaflet"}

(* A text whose annexes precede an article, one with a paragraph number twice, *)
(* a PDF without text that is not UTF-8, and an ASCII one, with text, that a    *)
(* host without a word list refuses at 0.5 and every host at 0.75.             *)
MCContents ==
    [a \in MCArtifacts |->
        CASE a = "amended" -> [extracted |-> None, defects |-> {}, breaks |-> {}, decoded |->
                <<<<"article", 1>>, <<"annex", 0>>, <<"article", 2>>, <<"paragraph", 1>>>>]
          [] a = "clash" -> [extracted |-> None, defects |-> {}, breaks |-> {}, decoded |->
                <<<<"article", 1>>, <<"paragraph", 1>>, <<"text", 0>>, <<"paragraph", 1>>>>]
          [] a = "scan" -> [decoded |-> None, extracted |-> <<<<"space", 0>>>>,
                defects |-> {}, breaks |-> {}]
          [] a = "leaflet" -> [decoded |-> <<<<"text", 0>>>>,
                extracted |-> <<<<"article", 1>>, <<"paragraph", 1>>>>,
                defects |-> {"hyphenation", "short_lines"}, breaks |-> {"ordinary"}]]

MCWorkers == {"w1", "w2"}

(* The host of one thread has a word list. *)
MCBrokenWords == [w \in MCWorkers |-> IF w = "w1" THEN {"genuine"} ELSE Breaks]
================================================================================
