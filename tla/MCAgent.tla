------------------------------ MODULE MCAgent ------------------------------
(* AgentGraph for TLC: four tools, one of them of high risk, and drafts    *)
(* that chain, expand, refer to steps that are dropped, or do not parse.   *)
EXTENDS AgentGraph

D(tool, arg, ref) == [tool |-> tool, arg |-> arg, ref |-> ref,
                      field |-> "items"]

MCDrafts == {
    <<>>,
    <<D(Chat, "given", 0)>>,
    <<D("unknown", "given", 0), D("search", "given", 0)>>,
    <<D("search", "given", 0), D("send", "list", 1), D("draft", "given", 0)>>,
    <<D("search", "given", 0), D("draft", "list", 1), D(Chat, "list", 1)>>,
    <<D("search", "bad", 0), D("search", "given", 0), D("send", "list", 2)>>,
    <<D("search", "given", 0), D("search", "list", 1), D("draft", "list", 2)>>,
    <<D("search", "given", 0), D("send", "one", 1), D("send", "null", 0)>>}
MCApprovals == {{}, {2}, {1, 2, 3}}
MCTools == {"search", "send", "draft"}
MCHighRisk == {"send"}
MCFields == {"items"}
=============================================================================
