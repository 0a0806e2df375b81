-------------------------- MODULE ReferencePinsMC --------------------------
(* A manual cited by pages and a specification cited by headings; one file *)
(* cites both, the other one may be unreadable.                            *)
EXTENDS ReferencePins

CONSTANTS sdm, wasm, c1, c2, alice, bob, carol

MCCitations ==
    {[file |-> "a", slug |-> wasm, anchor |-> "heading"],
     [file |-> "a", slug |-> sdm, anchor |-> "pages"],
     [file |-> "b", slug |-> wasm, anchor |-> "gone"],
     [file |-> "b", slug |-> sdm, anchor |-> "scrawl"]}

MCFinds == {<<"heading", c1>>, <<"heading", c2>>, <<"gone", c2>>}

Offline == [op |-> "offline", how |-> "none", slugs |-> {}, reviewed |-> FALSE]
Fetches(how, slugs) == [op |-> "refresh", how |-> how, slugs |-> slugs, reviewed |-> FALSE]
Acknowledges(slugs, reviewed) ==
    [op |-> "acknowledge", how |-> IF slugs = {} THEN "none" ELSE "slug",
     slugs |-> slugs, reviewed |-> reviewed]

MCCommands ==
    {Offline, Fetches("all", {}), Fetches("slug", {wasm}), Fetches("corpus", {wasm}),
     Fetches("none", {}), Acknowledges({wasm}, TRUE), Acknowledges({sdm}, TRUE),
     Acknowledges({wasm}, FALSE), Acknowledges({}, TRUE)}

MCWriters ==
    {Offline, Fetches("all", {}), Acknowledges({wasm}, TRUE), Acknowledges({sdm}, TRUE)}

MCChecks == {Offline, Fetches("all", {}), Acknowledges({wasm}, TRUE)}

Regime(procs, commands, serial, hideable, d, e, k) ==
    [procs |-> procs, commands |-> commands, serial |-> serial, hideable |-> hideable,
     drifts |-> d, edits |-> e, kills |-> k]

(* Two at once of any command, one perhaps killed, while an address serves *)
(* something else; two at once while somebody edits; three, one after the  *)
(* other, of those that write, while addresses change twice.               *)
MCRegimes ==
    {Regime({alice, bob}, MCCommands, FALSE, {"b"}, 1, 0, 1),
     Regime({alice, bob}, MCChecks, FALSE, {"b"}, 0, 1, 0),
     Regime({alice, bob, carol}, MCWriters, TRUE, {}, 2, 0, 0)}

MCOneProcess == {Regime({alice}, MCCommands, FALSE, {}, 1, 0, 0)}
=============================================================================
