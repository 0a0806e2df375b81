------------------------ MODULE ReviewerAttribution ------------------------
(***************************************************************************)
(* normalize_reviewer_attribution of scripts/check_references.py: which    *)
(* email addresses may stand behind a reviewed pin, and the one form in    *)
(* which they are stored.  The registry is refused if an address in it is  *)
(* not its own normal form, so what the writer stores must be a fixed      *)
(* point.                                                                  *)
(*                                                                         *)
(* An address is a local part, the labels of its domain as they were       *)
(* typed, and the dots after the last one.  Of a label only what the       *)
(* checks tell apart is kept.                                              *)
(*                                                                         *)
(* A definition commented "Mutant" is a bug the checks must find; no       *)
(* specification uses it.                                                  *)
(***************************************************************************)
EXTENDS Integers, Sequences, SequencesExt

CONSTANTS
    MaxLabels,  \* bound: the length of a domain
    Rejected    \* no normal form

ASSUME ReviewerAssumption == MaxLabels \in Nat

(* How a label was typed: plain, with capitals, with letters beyond ASCII  *)
(* ("idn"), as IDNA encodes those, the reserved words, full-width letters  *)
(* that IDNA maps to a reserved word ("wide"), digits, hexadecimal digits, *)
(* with a hyphen at its end, with a character nobody sees, or nothing.     *)
Labels == {"word", "Word", "idn", "xn--", "com", "COM", "example", "wide",
           "test", "7", "0x7f", "word-", "hidden", ""}

Locals == {"a.b", "A.b", "a..b", "\"a\"", ""}

Domains == UNION {[1 .. n -> Labels] : n \in 0 .. MaxLabels}

Addresses == [local : Locals, labels : Domains, dots : 0 .. 2, ats : 0 .. 2]

VARIABLES typed, stored

reviewerVars == <<typed, stored>>

(* The built-in IDNA encoding and lower().                                 *)
Idna(label) ==
    CASE label = "Word" -> "word" [] label = "COM" -> "com"
      [] label = "idn" -> "xn--" [] label = "wide" -> "example"
      [] OTHER -> label

Encoded(labels) == [i \in DOMAIN labels |-> Idna(labels[i])]

Numeric(label) == label \in {"7", "0x7f"}
WellFormed(label) == label \notin {"word-", "", "hidden", "idn", "Word", "COM", "wide"}

(* example.com and what lies below it, and the reserved top levels.        *)
Reserved(labels) ==
    \/ Last(labels) \in {"example", "test"}
    \/ IsSuffix(<<"example", "com">>, labels)

(* IPv4 in dotted form has four decimal parts; the legacy forms have up to *)
(* four, decimal or hexadecimal.                                           *)
Host(labels) == Len(labels) <= 4 /\ \A i \in DOMAIN labels : Numeric(labels[i])

DomainAccepted(labels) ==
    /\ Len(labels) >= 2
    /\ \A i \in DOMAIN labels : WellFormed(labels[i])
    /\ ~Host(labels)
    /\ Last(labels) # "7"
    /\ ~Reserved(labels)

(* Mutant: reserved domains are looked for in what was typed.              *)
NormalizeTyped(a) ==
    IF /\ a.ats = 1 /\ a.local \in {"a.b", "A.b"}
       /\ \A i \in DOMAIN a.labels : a.labels[i] \notin {"hidden", ""}
       /\ a.labels # <<>> => ~Reserved(a.labels)
       /\ a.dots <= 1 /\ Len(a.labels) >= 2 /\ ~Host(Encoded(a.labels)) /\ Last(a.labels) # "7"
       /\ \A i \in DOMAIN a.labels : WellFormed(Idna(a.labels[i]))
    THEN [a EXCEPT !.labels = Encoded(a.labels), !.dots = 0]
    ELSE Rejected

(* normalize_reviewer_attribution: one '@', a dot-atom before it, no       *)
(* hidden character, at most one dot at the end, a public domain.          *)
Normalize(a) ==
    IF /\ a.ats = 1 /\ a.local \in {"a.b", "A.b"}
       /\ \A i \in DOMAIN a.labels : a.labels[i] \notin {"hidden", ""}
       /\ a.dots <= 1
       /\ DomainAccepted(Encoded(a.labels))
    THEN [a EXCEPT !.labels = Encoded(a.labels), !.dots = 0]
    ELSE Rejected

ReviewerInit == typed \in Addresses /\ stored = Rejected

(* The writer stores the normal form.                                      *)
WriteEntry ==
    /\ stored = Rejected /\ Normalize(typed) # Rejected
    /\ stored' = Normalize(typed)
    /\ UNCHANGED typed

(* An address is refused, or was stored.                                   *)
WriterDone == (Normalize(typed) = Rejected \/ stored # Rejected) /\ UNCHANGED reviewerVars

ReviewerNext == WriteEntry \/ WriterDone

ReviewerSpec == ReviewerInit /\ [][ReviewerNext]_reviewerVars

(* What the writer stores is what load_registry accepts: its own normal    *)
(* form.                                                                   *)
StoredIsCanonical == stored # Rejected => Normalize(stored) = stored

(* A stored address names no reserved, numeric or single-label host,       *)
(* however it was typed.                                                   *)
StoredIsPublic ==
    stored # Rejected =>
        /\ Len(stored.labels) >= 2 /\ stored.dots = 0
        /\ ~Reserved(stored.labels) /\ ~Host(stored.labels)

(* What the registry keeps of an address is in normal form and public.     *)
StoredInv == StoredIsCanonical /\ StoredIsPublic

=============================================================================
