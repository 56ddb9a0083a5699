----------------------------- MODULE McpCatalog -----------------------------
(* The catalog of Gateway tools the MCP service serves, and the verdict on    *)
(* each: pure operators of src/mcp/catalog.rs and src/mcp/verdict.rs. Texts   *)
(* (names of tools and servers, descriptions, queries) are values; what the   *)
(* code gets by cutting them up is given by the constants.                    *)
EXTENDS Integers, Sequences, FiniteSets, FiniteSetsExt

CONSTANTS
    ReadWords, WriteWords,  \* READ_WORDS, WRITE_WORDS
    WordsOf,        \* text -> its words, in order
    Split,          \* separator -> name of a tool -> its server and own name
    Before,         \* pairs of names of tools, the first before the second
    Ungrouped,      \* UNGROUPED_SERVER
    SearchLimit     \* SEARCH_RESULT_LIMIT

\* An annotation that is absent or null, true, false, or of another type.
Hint == {"absent", "true", "false", "other"}

NoAnnotations == [present |-> FALSE]

\* The verdicts are "allow" and "ask".
NameReadsOnly(own) ==
    LET words == WordsOf[own]
    IN  /\ words # <<>>
        /\ words[1] \in ReadWords
        /\ \A i \in DOMAIN words : words[i] \notin WriteWords

AnnotationsPermit(annotations) ==
    annotations.present =>
        /\ annotations.object
        /\ annotations.readOnly \in {"absent", "true"}
        /\ annotations.destructive \in {"absent", "false"}

\* Variant: a name the Gateway lists twice is judged like any other.
DecideListedOnce(entry, allow) ==
    IF \/ entry.name \in allow
       \/ /\ entry.server # Ungrouped
          /\ NameReadsOnly(entry.own)
          /\ AnnotationsPermit(entry.annotations)
    THEN "allow" ELSE "ask"

Decide(entry, allow) ==
    IF /\ ~entry.listedTwice
       /\ \/ entry.name \in allow
          \/ /\ entry.server # Ungrouped
             /\ NameReadsOnly(entry.own)
             /\ AnnotationsPermit(entry.annotations)
    THEN "allow" ELSE "ask"

\* An entry regrouped and decided again: its name is split at the separator of
\* the section, and the verdict is that of its list of allowed names.
Settled(entry, section) ==
    LET grouped == [entry EXCEPT !.server = Split[section.separator][entry.name].server,
                                 !.own    = Split[section.separator][entry.name].own]
    IN  [grouped EXCEPT !.verdict = Decide(grouped, section.allow)]

\* A catalog is a function from the names of its tools.
WithSettings(catalog, section) ==
    [name \in DOMAIN catalog |-> Settled(catalog[name], section)]

\* The tools the Gateway listed, in order: of a name listed twice the first
\* listing is kept, and marked.
Build(tools, section) ==
    LET listings(name) == {i \in DOMAIN tools : tools[i].name = name}
        raw == [name \in {tools[i].name : i \in DOMAIN tools} |->
                    [name        |-> name,
                     server      |-> Ungrouped,
                     own         |-> name,
                     description |-> tools[Min(listings(name))].description,
                     annotations |-> tools[Min(listings(name))].annotations,
                     verdict     |-> "ask",
                     listedTwice |-> Cardinality(listings(name)) > 1]]
    IN  WithSettings(raw, section)

ToolsOf(catalog, server) == {name \in DOMAIN catalog : catalog[name].server = server}

-----------------------------------------------------------------------------
WordSet(text) == {WordsOf[text][i] : i \in DOMAIN WordsOf[text]}

Score(entry, query) ==
      3 * Cardinality(WordSet(query) \cap WordSet(entry.own))
    + 2 * Cardinality(WordSet(query) \cap WordSet(entry.server))
    + Cardinality(WordSet(query) \cap WordSet(entry.description))

Matches(catalog, query) == {name \in DOMAIN catalog : Score(catalog[name], query) > 0}

\* The best matches on active servers, and the inactive servers with matches.
Search(catalog, query, active) ==
    LET callable == {name \in Matches(catalog, query) : catalog[name].server \in active}
        better(name) ==
            {other \in callable :
                \/ Score(catalog[other], query) > Score(catalog[name], query)
                \/ /\ Score(catalog[other], query) = Score(catalog[name], query)
                   /\ <<other, name>> \in Before}
    IN  [tools   |-> {name \in callable : Cardinality(better(name)) < SearchLimit},
         servers |-> {catalog[name].server : name \in Matches(catalog, query)} \ active]

=============================================================================
