----------------------------- MODULE MCPackaging -----------------------------
\* Packaging for TLC: the overview and two tabs, as ucc-gen generates them, or as a
\* release with other tokens, inputs or defaults would.
EXTENDS Packaging

MCFiles == <<"overview", "tab", "modal">>

Fresh(input, slots) ==
    [tokens |-> {"legacy"}, picker |-> {}, inputs |-> {input}, globalInputs |-> slots,
     visualizations |-> {"label", "panel"}, structure |-> {"label", "panel"},
     dataSources |-> {"label", "panel"}, refresh |-> "own"]

WithPicker(d, tok, pre) == [d EXCEPT !.picker = {[token |-> tok, preset |-> pre]}]

Plain(d) == [d EXCEPT !.visualizations = {"panel"}, !.structure = {"panel"},
                      !.dataSources = {"panel"}, !.refresh = "60s"]

MCGenerated(f) ==
    LET own == Fresh("overview_input", {"overview_input"})
        tab == Fresh("tab_input", {"tab_input"})
    IN  IF f = Overview
        THEN {WithPicker(own, "legacy", "own"),
              [Plain(WithPicker(own, "own", "own")) EXCEPT !.tokens = {}],
              [Plain(WithPicker(own, "global_time", "-24h,now")) EXCEPT !.tokens = {"global_time"}]}
        ELSE {tab, Plain(tab), [tab EXCEPT !.tokens = {"global_time"}, !.globalInputs = {}],
              [Plain(WithPicker(own, "own", "-24h,now")) EXCEPT !.tokens = {}]}
=============================================================================
