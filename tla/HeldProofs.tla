------------------------------- MODULE HeldProofs ------------------------------
(***************************************************************************)
(* What is kept is kept for somebody, for any number of accounts, tickets, *)
(* requests, hosts, rows, machines, loops, processes and mails: the files  *)
(* that rows name (FilesHeld), and the machines, plugin processes and      *)
(* mails that somebody must answer for (NothingOrphaned), part by part     *)
(* (MCPlatform.tla).                                                       *)
(***************************************************************************)
EXTENDS MCPlatform, TLAPS

-----------------------------------------------------------------------------
(* Tickets.                                                                *)

TicketStatus == {"none", "open", "answered", "closed", "deleted"}
LetterRecords == [at : {"idle", "writing", "failed"}, on : Queries \cup {"none"},
                  first : BOOLEAN, files : SUBSET Files]

LEMMA TicketsStart == TicketsInit => TicketsInv
<1> SUFFICES ASSUME TicketsInit PROVE TicketsInv  OBVIOUS
<1>1. Unwritten \in LetterRecords /\ Unwritten.files = {} /\ Unwritten.at = "idle"
  BY DEF Unwritten, LetterRecords
<1>2. \A l \in Letters : letter[l] = Unwritten  BY DEF TicketsInit
<1>3. \A q \in Queries : attached[q] = {} /\ ticket[q] = "none"  BY DEF TicketsInit
<1>4. TicketsTypeOK  BY <1>1 DEF TicketsInit, TicketsTypeOK, LetterRecords
<1>5. AttachmentsHeld /\ WaitsForTheOther  BY <1>3 DEF AttachmentsHeld, WaitsForTheOther
<1>6. FilesApart  BY <1>1, <1>2, <1>3 DEF FilesApart
<1>7. QED  BY <1>4, <1>5, <1>6 DEF TicketsInv

\* What a reply's record is after a step that gives it another one.
LEMMA LetterBecomes ==
  ASSUME TicketsInv, NEW l \in Letters, NEW x \in LetterRecords, letter' = [letter EXCEPT ![l] = x]
  PROVE  /\ letter' \in [Letters -> LetterRecords] /\ letter'[l] = x
         /\ \A k \in Letters \ {l} : letter'[k] = letter[k]
BY DEF TicketsInv, TicketsTypeOK, LetterRecords

\* A reply that is written, kept or dropped.
LEMMA LettersKeep ==
  ASSUME TicketsInv, NEW l \in Letters,
         (\E q \in Queries : BeginLetter(l, q)) \/ SaveFile(l) \/ CommitLetter(l) \/ LetterFails(l)
         \/ RemoveFiles(l)
  PROVE  TicketsInv'
<1> USE DEF TicketsInv
<1>1. /\ letter[l] \in LetterRecords /\ letter \in [Letters -> LetterRecords]
      /\ Unwritten \in LetterRecords /\ Unwritten.files = {} /\ Unwritten.at = "idle"
  BY DEF TicketsTypeOK, LetterRecords, Unwritten
<1>2. CASE \E q \in Queries : BeginLetter(l, q)
  <2> PICK q \in Queries : BeginLetter(l, q)  BY <1>2
  <2> DEFINE x == [Unwritten EXCEPT !.at = "writing", !.on = q, !.first = (ticket[q] = "none")]
  <2>1. x \in LetterRecords /\ x.files = {} /\ x.on = q
    BY DEF Unwritten, LetterRecords
  <2>2. letter' = [letter EXCEPT ![l] = x] /\ UNCHANGED <<ticket, attached, lastWord, uploads>>
    BY DEF BeginLetter
  <2> HIDE DEF x
  <2>3. /\ letter' \in [Letters -> LetterRecords] /\ letter'[l] = x
        /\ \A k \in Letters \ {l} : letter'[k] = letter[k]
    BY <2>1, <2>2, LetterBecomes
  <2>4. TicketsTypeOK' /\ AttachmentsHeld' /\ WaitsForTheOther'
    BY <2>2, <2>3 DEF TicketsTypeOK, AttachmentsHeld, WaitsForTheOther, LetterRecords
  <2>5. FilesApart'  BY <2>1, <2>2, <2>3 DEF FilesApart
  <2>6. QED  BY <2>4, <2>5
<1>3. CASE SaveFile(l)
  <2> PICK p \in Files : /\ p \notin uploads /\ \A q \in Queries : p \notin attached[q]
                         /\ uploads' = uploads \cup {p}
                         /\ letter' = [letter EXCEPT ![l].files = @ \cup {p}]
    BY <1>3 DEF SaveFile
  <2> DEFINE x == [letter[l] EXCEPT !.files = @ \cup {p}]
  <2>1. x \in LetterRecords /\ x.files = letter[l].files \cup {p} /\ x.on = letter[l].on
        /\ x.at = letter[l].at
    BY <1>1 DEF LetterRecords
  <2>2. letter' = [letter EXCEPT ![l] = x] /\ UNCHANGED <<ticket, attached, lastWord>>
    BY <1>1, <1>3 DEF SaveFile, LetterRecords
  <2> HIDE DEF x
  <2>3. /\ letter' \in [Letters -> LetterRecords] /\ letter'[l] = x
        /\ \A k \in Letters \ {l} : letter'[k] = letter[k]
    BY <2>1, <2>2, LetterBecomes
  <2>4. TicketsTypeOK' /\ AttachmentsHeld' /\ WaitsForTheOther'
    BY <2>2, <2>3 DEF TicketsTypeOK, AttachmentsHeld, WaitsForTheOther, LetterRecords
  <2>5. FilesApart'
    <3>1. \A k \in Letters : letter'[k].files \subseteq letter[k].files \cup {p}
      BY <2>1, <2>3
    <3>2. \A k \in Letters \ {l} : letter'[k].files = letter[k].files
      BY <2>3
    <3>3. \A k \in Letters : letter[k].files \subseteq uploads  BY DEF FilesApart
    <3>4. \A j \in Letters : \A k \in Letters \ {j} : letter'[j].files \cap letter'[k].files = {}
      BY <3>1, <3>2, <3>3 DEF FilesApart
    <3>5. \A k \in Letters, q \in Queries : letter'[k].files \cap attached'[q] = {}
      BY <2>2, <3>1 DEF FilesApart
    <3>6. \A k \in Letters : letter'[k].at # "idle" => letter'[k].on \in Queries
      BY <2>1, <2>3 DEF FilesApart
    <3>7. QED  BY <2>2, <3>1, <3>3, <3>4, <3>5, <3>6 DEF FilesApart
  <2>6. QED  BY <2>4, <2>5
<1>4. CASE CommitLetter(l)
  <2> DEFINE q == letter[l].on
  <2>1. letter[l].at = "writing" /\ q \in Queries  BY <1>4 DEF CommitLetter, FilesApart
  <2>2. /\ letter' = [letter EXCEPT ![l] = Unwritten] /\ UNCHANGED uploads
        /\ attached' = [attached EXCEPT ![q] = @ \cup letter[l].files]
    BY <1>4 DEF CommitLetter
  <2>3. /\ letter' \in [Letters -> LetterRecords] /\ letter'[l] = Unwritten
        /\ \A k \in Letters \ {l} : letter'[k] = letter[k]
    BY <1>1, <2>2, LetterBecomes
  <2>4. /\ attached'[q] = attached[q] \cup letter[l].files
        /\ \A r \in Queries \ {q} : attached'[r] = attached[r]
    BY <2>1, <2>2 DEF TicketsTypeOK
  <2>5. ticket' \in [Queries -> TicketStatus] /\ lastWord' \in [Queries -> {"nobody", "owner", "staff"}]
    BY <1>4 DEF CommitLetter, TicketsTypeOK, TicketStatus
  <2>6. TicketsTypeOK'
    BY <1>1, <2>2, <2>3, <2>5 DEF TicketsTypeOK, LetterRecords, TicketStatus
  <2>7. AttachmentsHeld'  BY <2>2, <2>4 DEF AttachmentsHeld, FilesApart
  <2>8. WaitsForTheOther'
    BY <1>4, <2>1 DEF CommitLetter, WaitsForTheOther, TicketsTypeOK
  <2>9. FilesApart'
    BY <1>1, <2>1, <2>2, <2>3, <2>4 DEF FilesApart
  <2>10. QED  BY <2>6, <2>7, <2>8, <2>9
<1>5. CASE LetterFails(l)
  <2> DEFINE x == [letter[l] EXCEPT !.at = "failed"]
  <2>1. x \in LetterRecords /\ x.files = letter[l].files /\ x.on = letter[l].on
    BY <1>1 DEF LetterRecords
  <2>2. letter' = [letter EXCEPT ![l] = x] /\ UNCHANGED <<ticket, attached, lastWord, uploads>>
        /\ letter[l].at = "writing"
    BY <1>1, <1>5 DEF LetterFails, LetterRecords
  <2> HIDE DEF x
  <2>3. /\ letter' \in [Letters -> LetterRecords] /\ letter'[l] = x
        /\ \A k \in Letters \ {l} : letter'[k] = letter[k]
    BY <2>1, <2>2, LetterBecomes
  <2>4. TicketsTypeOK' /\ AttachmentsHeld' /\ WaitsForTheOther'
    BY <2>2, <2>3 DEF TicketsTypeOK, AttachmentsHeld, WaitsForTheOther, LetterRecords
  <2>5. FilesApart'  BY <2>1, <2>2, <2>3 DEF FilesApart
  <2>6. QED  BY <2>4, <2>5
<1>6. CASE RemoveFiles(l)
  <2>1. letter' = [letter EXCEPT ![l] = Unwritten] /\ UNCHANGED <<ticket, attached, lastWord>>
        /\ uploads' = uploads \ letter[l].files
    BY <1>6 DEF RemoveFiles
  <2>2. /\ letter' \in [Letters -> LetterRecords] /\ letter'[l] = Unwritten
        /\ \A k \in Letters \ {l} : letter'[k] = letter[k]
    BY <1>1, <2>1, LetterBecomes
  <2>3. TicketsTypeOK' /\ WaitsForTheOther'
    BY <2>1, <2>2 DEF TicketsTypeOK, WaitsForTheOther, LetterRecords
  <2>4. AttachmentsHeld'  BY <2>1 DEF AttachmentsHeld, FilesApart
  <2>5. FilesApart'  BY <1>1, <2>1, <2>2 DEF FilesApart
  <2>6. QED  BY <2>3, <2>4, <2>5
<1>7. QED  BY <1>2, <1>3, <1>4, <1>5, <1>6

LEMMA TicketsStep == TicketsInv /\ [TicketsNext]_ticketVars => TicketsInv'
<1> SUFFICES ASSUME TicketsInv, [TicketsNext]_ticketVars PROVE TicketsInv'  OBVIOUS
<1> USE DEF TicketsInv
<1>1. ASSUME NEW q \in Queries, CloseTicket(q) \/ ReopenTicket(q) PROVE TicketsInv'
  <2>1. TicketsTypeOK'  BY <1>1 DEF CloseTicket, ReopenTicket, TicketsTypeOK
  <2>2. AttachmentsHeld' /\ FilesApart'
    BY <1>1 DEF CloseTicket, ReopenTicket, AttachmentsHeld, FilesApart
  <2>3. WaitsForTheOther'
    BY <1>1 DEF CloseTicket, ReopenTicket, WaitsForTheOther, TicketsTypeOK
  <2>4. QED  BY <2>1, <2>2, <2>3
<1>2. ASSUME DeleteTickets PROVE TicketsInv'
  <2> PICK gone \in SUBSET {q \in Queries : Exists(q)} : AccountGone(gone)
    BY <1>2 DEF DeleteTickets
  <2>1. UNCHANGED <<lastWord, letter>>  BY <1>2 DEF DeleteTickets
  <2>2. CASE UNCHANGED <<ticket, attached, uploads>>
    BY <2>1, <2>2 DEF TicketsTypeOK, AttachmentsHeld, WaitsForTheOther, FilesApart
  <2>3. CASE /\ ticket' = [q \in Queries |-> IF q \in gone THEN "deleted" ELSE ticket[q]]
             /\ attached' = [q \in Queries |-> IF q \in gone THEN {} ELSE attached[q]]
             /\ uploads' = uploads \ UNION {attached[q] : q \in gone}
    <3>1. TicketsTypeOK'  BY <2>1, <2>3 DEF TicketsTypeOK
    <3>2. \A q \in Queries : attached'[q] \subseteq attached[q]  BY <2>3
    <3>3. \A q \in Queries \ gone : \A p \in attached[q] : p \notin UNION {attached[r] : r \in gone}
      BY DEF FilesApart
    <3>4. AttachmentsHeld'  BY <2>3, <3>3 DEF AttachmentsHeld
    <3>5. WaitsForTheOther'  BY <2>1, <2>3 DEF WaitsForTheOther
    <3>6. \A l \in Letters : letter[l].files \cap UNION {attached[r] : r \in gone} = {}
      BY DEF FilesApart
    <3>7. FilesApart'  BY <2>1, <2>3, <3>2, <3>6 DEF FilesApart
    <3>8. QED  BY <3>1, <3>4, <3>5, <3>7
  <2>4. QED  BY <2>2, <2>3 DEF AccountGone
<1>3. ASSUME UNCHANGED ticketVars PROVE TicketsInv'
  BY <1>3 DEF ticketVars, TicketsTypeOK, AttachmentsHeld, WaitsForTheOther, FilesApart
<1>4. QED  BY <1>1, <1>2, <1>3, LettersKeep DEF TicketsNext

-----------------------------------------------------------------------------
(* Proofs of identity.                                                     *)

FilingRecords ==
    [at : {"idle", "checked", "stored", "saved", "asking", "started", "querying", "approve", "refuse",
           "reviewing", "grant", "deny"},
     who : Applicants \cup {"none"}, seen : Records, number : IdNumbers \cup {"none"},
     photo : Papers \cup {"none"}, certify : 0..MaxCertify]

LEMMA EmptyRecords ==
  /\ NoVerification \in Records /\ NotFiling \in FilingRecords
  /\ NoVerification.photo = "none" /\ NoVerification.certify = 0 /\ NoVerification.status = "none"
  /\ NotFiling.at = "idle" /\ NotFiling.seen = NoVerification /\ NotFiling.number = "none"
BY KycAssumption DEF NoVerification, NotFiling, Records, FilingRecords

LEMMA KycStart == KycInit => KycInv
<1> SUFFICES ASSUME KycInit PROVE KycInv  OBVIOUS
<1>1. \A f \in Filings : filing[f] = NotFiling  BY DEF KycInit
<1>2. \A u \in Applicants : identity[u] = NoVerification  BY DEF KycInit
<1>3. KycTypeOK
  <2>1. identity \in [Applicants -> Records] /\ filing \in [Filings -> FilingRecords]
    BY EmptyRecords DEF KycInit
  <2>2. photos = {} /\ certified \in 0..MaxCertify
    BY KycAssumption DEF KycInit
  <2>3. overtaken \in BOOLEAN /\ skewed \in BOOLEAN  BY DEF KycInit
  <2>4. QED  BY <2>1, <2>2, <2>3 DEF KycTypeOK, FilingRecords
<1>4. PhotosHeld /\ OneAccountPerNumber
  BY <1>2, EmptyRecords DEF PhotosHeld, OneAccountPerNumber
<1>5. FilingsKnow /\ CountStands /\ StoredAlone /\ OldIsOwn
  BY <1>1, <1>2, EmptyRecords DEF FilingsKnow, CountStands, StoredAlone, OldIsOwn
<1>6. QED  BY <1>3, <1>4, <1>5 DEF KycInv

\* A request takes a step and no record changes: its new reading is of some record, and
\* what it stores is its own.
LEMMA FilingStep ==
  ASSUME KycInv, NEW f \in Filings, NEW x \in FilingRecords, filing' = [filing EXCEPT ![f] = x],
         UNCHANGED <<identity, overtaken, skewed>>, photos' \subseteq Papers, certified' \in 0..MaxCertify,
         x.at # "idle" => x.who \in Applicants,
         x.at \in {"querying", "approve", "refuse"} => x.number = "none",
         x.at = "grant" => ~Taken(x.who, x.number),
         \A u \in Applicants : identity[u].photo # "none" => identity[u].photo \in photos',
         \A g \in Filings \ {f} : filing[g].at = "stored" =>
            filing[g].photo \in photos' /\ x.seen.photo # filing[g].photo,
         x.at = "stored" =>
            /\ x.photo \in photos' /\ x.seen.photo # x.photo
            /\ \A u \in Applicants : identity[u].photo # x.photo
            /\ \A g \in Filings \ {f} : filing[g].seen.photo # x.photo
            /\ \A g \in Filings \ {f} : filing[g].at = "stored" => filing[g].photo # x.photo,
         x.at \in {"checked", "stored", "saved"} => \A u \in Applicants :
            x.seen.photo # "none" /\ identity[u].photo = x.seen.photo =>
                u = x.who /\ x.at # "saved"
  PROVE  KycInv'
<1> USE DEF KycInv
<1>1. /\ filing' \in [Filings -> FilingRecords] /\ filing'[f] = x
      /\ \A g \in Filings \ {f} : filing'[g] = filing[g]
  BY DEF KycTypeOK, FilingRecords
<1>2. KycTypeOK'  BY <1>1 DEF KycTypeOK, FilingRecords
<1>3. PhotosHeld' /\ OneAccountPerNumber'
  BY DEF PhotosHeld, OneAccountPerNumber, Taken
<1>4. FilingsKnow' /\ CountStands'  BY <1>1 DEF FilingsKnow, CountStands, Taken
<1>5. StoredAlone'
  <2> SUFFICES ASSUME NEW h \in Filings, filing'[h].at = "stored"
               PROVE  /\ filing'[h].photo \in photos'
                      /\ \A u \in Applicants : identity'[u].photo # filing'[h].photo
                      /\ \A g \in Filings : filing'[g].seen.photo # filing'[h].photo
                      /\ \A g \in Filings \ {h} :
                            filing'[g].at = "stored" => filing'[g].photo # filing'[h].photo
    BY DEF StoredAlone
  <2>1. CASE h = f  BY <1>1, <2>1
  <2>2. CASE h # f  BY <1>1, <2>2 DEF StoredAlone
  <2>3. QED  BY <2>1, <2>2
<1>6. OldIsOwn'  BY <1>1 DEF OldIsOwn
<1>7. QED  BY <1>2, <1>3, <1>4, <1>5, <1>6

\* Leaving off is such a step, as long as no photos are removed that are needed.
LEMMA FilingEnds ==
  ASSUME KycInv, NEW f \in Filings, Filed(f), UNCHANGED <<identity, overtaken, skewed>>,
         photos' \subseteq photos, certified' \in 0..MaxCertify,
         \A u \in Applicants : identity[u].photo # "none" => identity[u].photo \in photos',
         \A g \in Filings \ {f} : filing[g].at = "stored" => filing[g].photo \in photos'
  PROVE  KycInv'
<1>1. photos' \subseteq Papers  BY DEF KycInv, KycTypeOK
<1>2. \A g \in Filings : filing[g].at = "stored" => filing[g].photo # "none"
  BY KycAssumption DEF KycInv, KycTypeOK, StoredAlone
<1>3. filing' = [filing EXCEPT ![f] = NotFiling]  BY DEF Filed
<1>4. \A g \in Filings \ {f} : filing[g].at = "stored" =>
          filing[g].photo \in photos' /\ NotFiling.seen.photo # filing[g].photo
  BY <1>2, EmptyRecords
<1>5. NotFiling.at # "stored" /\ NotFiling.at \notin {"querying", "approve", "refuse"}
      /\ NotFiling.at \notin {"checked", "stored", "saved", "grant"} /\ NotFiling.at = "idle"
  BY EmptyRecords
<1>6. NotFiling \in FilingRecords  BY EmptyRecords
<1>7. QED  BY <1>1, <1>3, <1>4, <1>5, <1>6, FilingStep

LEMMA FilingFacts ==
  ASSUME KycInv, NEW f \in Filings
  PROVE  /\ filing[f] \in FilingRecords
         /\ photos \subseteq Papers /\ certified \in 0..MaxCertify
         /\ \A u \in Applicants : identity[u] \in Records
         /\ \A u \in Applicants : identity[u].photo # "none" => identity[u].photo \in photos
         /\ \A g \in Filings \ {f} : filing[g].at = "stored" =>
               filing[g].photo \in photos /\ filing[f].seen.photo # filing[g].photo
         /\ filing[f].at # "idle" => filing[f].who \in Applicants
BY DEF KycInv, KycTypeOK, FilingRecords, PhotosHeld, StoredAlone, FilingsKnow

LEMMA Reading ==
  ASSUME KycInv, NEW f \in Filings, NEW u \in Applicants,
         \/ CheckExternal(f, u) \/ AskVerdict(f, u) \/ ReviewReads(f, u)
         \/ \E n \in IdNumbers : CheckSubmission(f, u, n)
  PROVE  KycInv'
<1>0. \A g \in Filings : filing[g].at = "stored" =>
          filing[g].photo # "none" /\ identity[u].photo # filing[g].photo
  BY KycAssumption DEF KycInv, KycTypeOK, StoredAlone
<1>1. CASE CheckExternal(f, u)
  <2> DEFINE x == [NotFiling EXCEPT !.at = "asking", !.who = u]
  <2>1. x \in FilingRecords /\ x.at = "asking" /\ x.who = u /\ x.seen = NoVerification
    BY EmptyRecords DEF FilingRecords
  <2>2. filing' = [filing EXCEPT ![f] = x] /\ UNCHANGED <<identity, photos, certified, overtaken, skewed>>
    BY <1>1 DEF CheckExternal
  <2> HIDE DEF x
  <2>3. UNCHANGED <<identity, overtaken, skewed>> /\ photos' \subseteq Papers /\ certified' \in 0..MaxCertify
    BY <2>2, FilingFacts
  <2>4. \A w \in Applicants : identity[w].photo # "none" => identity[w].photo \in photos'
    BY <2>2, FilingFacts
  <2>5. \A g \in Filings \ {f} : filing[g].at = "stored" =>
            filing[g].photo \in photos' /\ x.seen.photo # filing[g].photo
    BY <1>0, <2>1, <2>2, EmptyRecords, FilingFacts
  <2>6. x.at # "stored" /\ x.at \notin {"querying", "approve", "refuse", "grant"} /\ x.at \notin {"checked", "stored", "saved"}
    BY <2>1
  <2>7. QED  BY <2>1, <2>2, <2>3, <2>4, <2>5, <2>6, FilingStep
<1>2. CASE AskVerdict(f, u)
  <2> DEFINE x == [NotFiling EXCEPT !.at = "querying", !.who = u, !.seen = identity[u]]
  <2>1. /\ x \in FilingRecords /\ x.at = "querying" /\ x.who = u /\ x.seen = identity[u]
        /\ x.number = "none"
    BY EmptyRecords, FilingFacts DEF FilingRecords
  <2>2. filing' = [filing EXCEPT ![f] = x] /\ UNCHANGED <<identity, photos, certified, overtaken, skewed>>
    BY <1>2 DEF AskVerdict
  <2> HIDE DEF x
  <2>3. UNCHANGED <<identity, overtaken, skewed>> /\ photos' \subseteq Papers /\ certified' \in 0..MaxCertify
    BY <2>2, FilingFacts
  <2>4. \A w \in Applicants : identity[w].photo # "none" => identity[w].photo \in photos'
    BY <2>2, FilingFacts
  <2>5. \A g \in Filings \ {f} : filing[g].at = "stored" =>
            filing[g].photo \in photos' /\ x.seen.photo # filing[g].photo
    BY <1>0, <2>1, <2>2, EmptyRecords, FilingFacts
  <2>6. x.at \notin {"checked", "stored", "saved"} /\ x.at # "stored" /\ x.at # "grant"
    BY <2>1
  <2>7. QED  BY <2>1, <2>2, <2>3, <2>4, <2>5, <2>6, FilingStep
<1>3. ASSUME NEW n \in IdNumbers, CheckSubmission(f, u, n) PROVE KycInv'
  <2> DEFINE x == [NotFiling EXCEPT !.at = "checked", !.who = u, !.seen = identity[u], !.number = n]
  <2>1. x \in FilingRecords /\ x.at = "checked" /\ x.who = u /\ x.seen = identity[u]
    BY EmptyRecords, FilingFacts DEF FilingRecords
  <2>2. filing' = [filing EXCEPT ![f] = x] /\ UNCHANGED <<identity, photos, certified, overtaken, skewed>>
    BY <1>3 DEF CheckSubmission
  <2>3. \A w \in Applicants : identity[w].photo = identity[u].photo /\ identity[u].photo # "none" => w = u
    BY DEF KycInv, PhotosHeld
  <2> HIDE DEF x
  <2>4. UNCHANGED <<identity, overtaken, skewed>> /\ photos' \subseteq Papers /\ certified' \in 0..MaxCertify
    BY <2>2, FilingFacts
  <2>5. \A w \in Applicants : identity[w].photo # "none" => identity[w].photo \in photos'
    BY <2>2, FilingFacts
  <2>6. \A g \in Filings \ {f} : filing[g].at = "stored" =>
            filing[g].photo \in photos' /\ x.seen.photo # filing[g].photo
    BY <1>0, <2>1, <2>2, EmptyRecords, FilingFacts
  <2>7. x.at # "stored" /\ x.at \notin {"querying", "approve", "refuse", "grant"} /\ x.at # "saved"
    BY <2>1
  <2>8. \A w \in Applicants : x.seen.photo # "none" /\ identity[w].photo = x.seen.photo => w = x.who
    BY <2>1, <2>3
  <2>9. QED  BY <2>1, <2>2, <2>4, <2>5, <2>6, <2>7, <2>8, FilingStep
<1>4. CASE ReviewReads(f, u)
  <2>0. PICK to \in {"reviewing", "grant"} :
           /\ to = "grant" => MayApprove(u, identity[u].number)
           /\ filing' = [filing EXCEPT ![f] =
                 [NotFiling EXCEPT !.at = to, !.who = u, !.number = identity[u].number]]
    BY <1>4 DEF ReviewReads
  <2> DEFINE x == [NotFiling EXCEPT !.at = to, !.who = u, !.number = identity[u].number]
  <2>1. /\ x \in FilingRecords /\ x.at = to /\ x.who = u /\ x.seen = NoVerification
        /\ x.number = identity[u].number
    BY EmptyRecords, FilingFacts DEF FilingRecords, Records
  <2>2. filing' = [filing EXCEPT ![f] = x] /\ UNCHANGED <<identity, photos, certified, overtaken, skewed>>
    BY <1>4, <2>0 DEF ReviewReads
  <2>3. x.at = "grant" => ~Taken(x.who, x.number)  BY <2>0, <2>1 DEF MayApprove
  <2> HIDE DEF x
  <2>4. UNCHANGED <<identity, overtaken, skewed>> /\ photos' \subseteq Papers /\ certified' \in 0..MaxCertify
    BY <2>2, FilingFacts
  <2>5. \A w \in Applicants : identity[w].photo # "none" => identity[w].photo \in photos'
    BY <2>2, FilingFacts
  <2>6. \A g \in Filings \ {f} : filing[g].at = "stored" =>
            filing[g].photo \in photos' /\ x.seen.photo # filing[g].photo
    BY <1>0, <2>1, <2>2, EmptyRecords, FilingFacts
  <2>7. x.at # "stored" /\ x.at \notin {"querying", "approve", "refuse"} /\ x.at \notin {"checked", "stored", "saved"}
    BY <2>1
  <2>8. QED  BY <2>1, <2>2, <2>3, <2>4, <2>5, <2>6, <2>7, FilingStep
<1>5. QED  BY <1>1, <1>2, <1>3, <1>4

\* Photos are stored, under a name nothing else has.
LEMMA Storing ==
  ASSUME KycInv, NEW f \in Filings, StorePhotos(f)
  PROVE  KycInv'
<1> USE DEF KycInv
<1>1. filing[f].at = "checked" /\ UNCHANGED <<identity, overtaken, skewed>> /\ certified' \in 0..MaxCertify
  BY FilingFacts DEF StorePhotos
<1>2. CASE Filed(f) /\ UNCHANGED photos
  BY <1>1, <1>2, FilingFacts, FilingEnds
<1>3. ASSUME NEW p \in Papers, FreshPaper(p), photos' = photos \cup {p},
             filing' = [filing EXCEPT ![f].at = "stored", ![f].photo = p]
      PROVE  KycInv'
  <2> DEFINE x == [filing[f] EXCEPT !.at = "stored", !.photo = p]
  <2>1. /\ x \in FilingRecords /\ x.at = "stored" /\ x.photo = p /\ x.seen = filing[f].seen
        /\ x.who = filing[f].who
    BY FilingFacts DEF FilingRecords
  <2>2. filing' = [filing EXCEPT ![f] = x]
    BY <1>3, FilingFacts DEF FilingRecords
  <2> HIDE DEF x
  <2>3. /\ photos' \subseteq Papers /\ p \in photos'
        /\ \A w \in Applicants : identity[w].photo # "none" => identity[w].photo \in photos'
    BY <1>3, FilingFacts
  <2>4. \A g \in Filings \ {f} : filing[g].at = "stored" =>
            filing[g].photo \in photos' /\ x.seen.photo # filing[g].photo
    BY <1>3, <2>1, FilingFacts
  <2>5. /\ \A u \in Applicants : identity[u].photo # x.photo
        /\ \A g \in Filings \ {f} : filing[g].seen.photo # x.photo /\ filing[g].photo # x.photo
        /\ x.seen.photo # x.photo
    BY <1>3, <2>1 DEF FreshPaper
  <2>6. \A w \in Applicants : x.seen.photo # "none" /\ identity[w].photo = x.seen.photo => w = x.who
    BY <1>1, <2>1 DEF OldIsOwn
  <2>7. x.who \in Applicants /\ x.at \notin {"querying", "approve", "refuse", "grant"} /\ x.at # "saved"
    BY <1>1, <2>1, FilingFacts
  <2>8. QED  BY <1>1, <2>1, <2>2, <2>3, <2>4, <2>5, <2>6, <2>7, FilingStep
<1>4. QED  BY <1>2, <1>3 DEF StorePhotos

\* One record is written, with its own photos or none, while at most one request ends.
LEMMA RecordStep ==
  ASSUME KycInv, NEW u \in Applicants, NEW y \in Records, identity' = [identity EXCEPT ![u] = y],
         y.photo \in {"none", identity[u].photo}, y.certify # 0 => y.number = "none",
         UNCHANGED filing \/ \E f \in Filings : Filed(f),
         certified' = certified, overtaken' \in BOOLEAN, overtaken => overtaken',
         skewed' \in BOOLEAN, skewed => skewed',
         photos' \subseteq photos, y.photo # "none" => y.photo \in photos',
         \A w \in Applicants \ {u} : identity[w].photo # "none" => identity[w].photo \in photos',
         \A f \in Filings : filing[f].at = "stored" => filing[f].photo \in photos',
         ~overtaken' /\ ~skewed' /\ y.status = "approved" /\ y.number # "none" =>
            /\ ~Taken(u, y.number)
            /\ \A g \in Filings : filing[g].at = "grant" /\ filing[g].number = y.number => filing[g].who = u
  PROVE  KycInv'
<1> USE DEF KycInv
<1>1. /\ identity' \in [Applicants -> Records] /\ identity'[u] = y
      /\ \A w \in Applicants \ {u} : identity'[w] = identity[w]
  BY DEF KycTypeOK
<1>2. /\ filing' \in [Filings -> FilingRecords]
      /\ \A g \in Filings : filing'[g] = filing[g] \/ filing'[g] = NotFiling
  BY EmptyRecords DEF KycTypeOK, FilingRecords, Filed
<1>3. KycTypeOK'
  <2>1. photos' \subseteq Papers /\ certified' \in 0..MaxCertify  BY DEF KycTypeOK
  <2>2. QED  BY <1>1, <1>2, <2>1 DEF KycTypeOK, FilingRecords
<1>4. PhotosHeld'  BY <1>1 DEF PhotosHeld
<1>5. OneAccountPerNumber'
  <2> SUFFICES ASSUME ~overtaken', ~skewed', NEW w \in Applicants, NEW v \in Applicants \ {w},
                      identity'[w].status = "approved", identity'[w].number # "none",
                      identity'[v].status = "approved", identity'[v].number = identity'[w].number
               PROVE  FALSE
    BY DEF OneAccountPerNumber, Taken
  <2>1. ~overtaken /\ ~skewed  OBVIOUS
  <2>2. CASE w = u  BY <1>1, <2>2 DEF Taken
  <2>3. CASE v = u  BY <1>1, <2>3 DEF Taken
  <2>4. CASE w # u /\ v # u  BY <1>1, <2>1, <2>4 DEF OneAccountPerNumber, Taken
  <2>5. QED  BY <2>2, <2>3, <2>4
<1>6. FilingsKnow'  BY <1>1, <1>2, EmptyRecords DEF FilingsKnow
<1>7. \A g \in Filings : filing[g].at = "stored" => filing[g].photo # "none"
  BY KycAssumption DEF KycTypeOK, StoredAlone
<1>8. StoredAlone'
  <2> SUFFICES ASSUME NEW h \in Filings, filing'[h].at = "stored"
               PROVE  /\ filing'[h].photo \in photos'
                      /\ \A w \in Applicants : identity'[w].photo # filing'[h].photo
                      /\ \A g \in Filings : filing'[g].seen.photo # filing'[h].photo
                      /\ \A g \in Filings \ {h} :
                            filing'[g].at = "stored" => filing'[g].photo # filing'[h].photo
    BY DEF StoredAlone
  <2>1. filing'[h] = filing[h]  BY <1>2, EmptyRecords
  <2>2. \A w \in Applicants : identity'[w].photo # filing[h].photo
    BY <1>1, <1>7, <2>1 DEF StoredAlone
  <2>3. \A g \in Filings : filing'[g].seen.photo # filing[h].photo
    BY <1>2, <1>7, <2>1, EmptyRecords DEF StoredAlone
  <2>4. \A g \in Filings \ {h} : filing'[g].at = "stored" => filing'[g].photo # filing[h].photo
    BY <1>2, <2>1, EmptyRecords DEF StoredAlone
  <2>5. QED  BY <2>1, <2>2, <2>3, <2>4
<1>9. OldIsOwn'
  <2> SUFFICES ASSUME NEW f \in Filings, NEW w \in Applicants,
                      filing'[f].at \in {"checked", "stored", "saved"},
                      filing'[f].seen.photo # "none", identity'[w].photo = filing'[f].seen.photo
               PROVE  w = filing'[f].who /\ filing'[f].at # "saved"
    BY DEF OldIsOwn
  <2>1. filing'[f] = filing[f]  BY <1>2, EmptyRecords
  <2>2. identity[w].photo = filing[f].seen.photo  BY <1>1, <2>1
  <2>3. QED  BY <2>1, <2>2 DEF OldIsOwn
<1>10. CountStands'
  <2> SUFFICES ASSUME ~overtaken', ~skewed', NEW g \in Filings, filing'[g].at = "grant",
                      filing'[g].number # "none", NEW w \in Applicants \ {filing'[g].who},
                      identity'[w].status = "approved", identity'[w].number = filing'[g].number
               PROVE  FALSE
    BY DEF CountStands, Taken
  <2>1. filing'[g] = filing[g]  BY <1>2, EmptyRecords
  <2>2. CASE w = u  BY <1>1, <2>1, <2>2
  <2>3. CASE w # u  BY <1>1, <2>1, <2>3 DEF CountStands, Taken
  <2>4. QED  BY <2>2, <2>3
<1>11. QED  BY <1>3, <1>4, <1>5, <1>6, <1>8, <1>9, <1>10

\* A submission is saved: its photos become those of the record.
LEMMA Saving ==
  ASSUME KycInv, NEW f \in Filings, SaveSubmission(f)
  PROVE  KycInv'
<1> USE DEF KycInv
<1> DEFINE u == filing[f].who
           y == [status |-> "pending", number |-> filing[f].number, photo |-> filing[f].photo, certify |-> 0]
           x == [filing[f] EXCEPT !.at = "saved"]
<1>1. filing[f].at = "stored" /\ UNCHANGED <<certified, overtaken, skewed>> /\ u \in Applicants
  BY FilingFacts DEF SaveSubmission
<1>2. /\ photos \subseteq Papers /\ certified \in 0..MaxCertify /\ filing[f] \in FilingRecords
      /\ filing[f].photo \in photos /\ filing[f].photo # "none"
  BY <1>1, FilingFacts, KycAssumption DEF StoredAlone
<1>3. CASE photos' = DiskIfUnsaved(f) /\ Filed(f) /\ UNCHANGED identity
  <2>1. photos' = photos \ {filing[f].photo}  BY <1>3 DEF DiskIfUnsaved
  <2>2. \A w \in Applicants : identity[w].photo # "none" => identity[w].photo \in photos'
    BY <1>1, <2>1, FilingFacts DEF StoredAlone
  <2>3. \A g \in Filings \ {f} : filing[g].at = "stored" => filing[g].photo \in photos'
    BY <1>1, <2>1, FilingFacts DEF StoredAlone
  <2>4. photos' \subseteq photos /\ certified' \in 0..MaxCertify  BY <1>1, <1>2, <2>1
  <2>5. QED  BY <1>1, <1>3, <2>2, <2>3, <2>4, FilingEnds
<1>4. CASE identity' = [identity EXCEPT ![u] = y] /\ FilingMoves(f, "saved") /\ UNCHANGED photos
  <2>1. y \in Records /\ y.photo = filing[f].photo /\ y.certify = 0 /\ y.status = "pending"
    BY <1>2, KycAssumption DEF Records, FilingRecords
  <2>2. x \in FilingRecords /\ x.at = "saved" /\ x.who = u /\ x.seen = filing[f].seen
    BY <1>2 DEF FilingRecords
  <2>3. filing' = [filing EXCEPT ![f] = x]
    BY <1>2, <1>4 DEF FilingMoves, FilingRecords
  <2> HIDE DEF x, y
  <2>4. /\ identity' \in [Applicants -> Records] /\ identity'[u] = y
        /\ \A w \in Applicants \ {u} : identity'[w] = identity[w]
    BY <1>1, <1>4, <2>1 DEF KycTypeOK
  <2>5. /\ filing' \in [Filings -> FilingRecords] /\ filing'[f] = x
        /\ \A g \in Filings \ {f} : filing'[g] = filing[g]
    BY <2>2, <2>3 DEF KycTypeOK, FilingRecords
  <2>6. KycTypeOK'  BY <1>1, <1>4, <2>4, <2>5 DEF KycTypeOK, FilingRecords
  <2>7. PhotosHeld'  BY <1>1, <1>2, <1>4, <2>1, <2>4 DEF PhotosHeld, StoredAlone
  <2>8. OneAccountPerNumber'
    BY <1>1, <2>1, <2>4 DEF OneAccountPerNumber, Taken
  <2>9. FilingsKnow'  BY <1>1, <2>1, <2>2, <2>4, <2>5 DEF FilingsKnow
  <2>10. StoredAlone'
    <3> SUFFICES ASSUME NEW h \in Filings, filing'[h].at = "stored"
                 PROVE  /\ filing'[h].photo \in photos'
                        /\ \A w \in Applicants : identity'[w].photo # filing'[h].photo
                        /\ \A g \in Filings : filing'[g].seen.photo # filing'[h].photo
                        /\ \A g \in Filings \ {h} :
                              filing'[g].at = "stored" => filing'[g].photo # filing'[h].photo
      BY DEF StoredAlone
    <3>1. h # f /\ filing'[h] = filing[h]  BY <2>2, <2>5
    <3>2. filing[f].photo # filing[h].photo  BY <1>1, <3>1 DEF StoredAlone
    <3>3. \A w \in Applicants : identity'[w].photo # filing[h].photo
      BY <2>1, <2>4, <3>1, <3>2 DEF StoredAlone
    <3>4. \A g \in Filings : filing'[g].seen.photo # filing[h].photo
      BY <2>2, <2>5, <3>1 DEF StoredAlone
    <3>5. \A g \in Filings \ {h} : filing'[g].at = "stored" => filing'[g].photo # filing[h].photo
      BY <2>2, <2>5, <3>1 DEF StoredAlone
    <3>6. QED  BY <1>4, <3>1, <3>3, <3>4, <3>5 DEF StoredAlone
  <2>11. OldIsOwn'
    <3> SUFFICES ASSUME NEW h \in Filings, NEW w \in Applicants,
                        filing'[h].at \in {"checked", "stored", "saved"},
                        filing'[h].seen.photo # "none", identity'[w].photo = filing'[h].seen.photo
                 PROVE  w = filing'[h].who /\ filing'[h].at # "saved"
      BY DEF OldIsOwn
    <3>1. filing'[h].seen = filing[h].seen /\ filing'[h].who = filing[h].who
      BY <2>2, <2>5
    <3>2. filing[h].seen.photo # filing[f].photo  BY <1>1 DEF StoredAlone
    <3>3. w # u /\ identity'[w] = identity[w]  BY <2>1, <2>4, <3>1, <3>2
    <3>4. filing[h].at \in {"checked", "stored", "saved"}  BY <1>1, <2>5
    <3>5. w = filing[h].who /\ filing[h].at # "saved"  BY <3>1, <3>3, <3>4 DEF OldIsOwn
    <3>6. h # f  BY <3>3, <3>5
    <3>7. QED  BY <2>5, <3>5, <3>6
  <2>12. CountStands'
    BY <1>1, <2>1, <2>2, <2>4, <2>5 DEF CountStands, Taken
  <2>13. QED  BY <2>6, <2>7, <2>8, <2>9, <2>10, <2>11, <2>12
<1>5. QED  BY <1>3, <1>4 DEF SaveSubmission

\* What the record replaced referenced is removed: by then no record references it.
LEMMA RemovingOld ==
  ASSUME KycInv, NEW f \in Filings, RemoveOldPhotos(f)
  PROVE  KycInv'
<1> USE DEF KycInv
<1>1. /\ filing[f].at = "saved" /\ Filed(f) /\ photos' = photos \ {filing[f].seen.photo}
      /\ UNCHANGED <<identity, certified, overtaken, skewed>>
  BY DEF RemoveOldPhotos
<1>2. \A w \in Applicants : identity[w].photo # "none" => identity[w].photo \in photos'
  BY <1>1, FilingFacts DEF OldIsOwn
<1>3. \A g \in Filings \ {f} : filing[g].at = "stored" => filing[g].photo \in photos'
  BY <1>1, FilingFacts
<1>4. photos' \subseteq photos /\ certified' \in 0..MaxCertify  BY <1>1, FilingFacts
<1>5. QED  BY <1>1, <1>2, <1>3, <1>4, FilingEnds

\* A certification that is begun or answered changes no record.
LEMMA Certifying ==
  ASSUME KycInv, NEW f \in Filings, CertificationStarts(f) \/ VerdictComes(f)
  PROVE  KycInv'
<1>1. UNCHANGED <<identity, photos, overtaken, skewed>>  BY DEF CertificationStarts, VerdictComes
<1>2. CASE Filed(f) /\ UNCHANGED certified
  BY <1>1, <1>2, FilingFacts, FilingEnds
<1>3. ASSUME NEW x \in FilingRecords, filing' = [filing EXCEPT ![f] = x], certified' \in 0..MaxCertify,
             x.at \in {"started", "approve", "refuse"}, x.who = filing[f].who,
             x.seen = filing[f].seen, x.number = filing[f].number,
             filing[f].at \in {"asking", "querying"},
             x.at \in {"approve", "refuse"} => filing[f].at = "querying"
      PROVE  KycInv'
  <2>1. photos' \subseteq Papers /\ UNCHANGED <<identity, overtaken, skewed>>  BY <1>1, FilingFacts
  <2>2. \A u \in Applicants : identity[u].photo # "none" => identity[u].photo \in photos'
    BY <1>1, FilingFacts
  <2>3. \A g \in Filings \ {f} : filing[g].at = "stored" =>
            filing[g].photo \in photos' /\ x.seen.photo # filing[g].photo
    BY <1>1, <1>3, FilingFacts
  <2>4. x.who \in Applicants  BY <1>3, FilingFacts
  <2>5. x.at # "grant" /\ (x.at \in {"querying", "approve", "refuse"} => x.number = "none")
    BY <1>3 DEF KycInv, FilingsKnow
  <2>6. x.at # "stored" /\ x.at \notin {"checked", "stored", "saved"}  BY <1>3
  <2>7. QED  BY <1>3, <2>1, <2>2, <2>3, <2>4, <2>5, <2>6, FilingStep
<1>4. ASSUME filing[f].at = "asking", certified < MaxCertify, certified' = certified + 1,
             filing' = [filing EXCEPT ![f].at = "started", ![f].certify = certified + 1]
      PROVE  KycInv'
  <2> DEFINE x == [filing[f] EXCEPT !.at = "started", !.certify = certified + 1]
  <2>1. certified + 1 \in 0..MaxCertify  BY <1>4, KycAssumption, FilingFacts
  <2>2. /\ x \in FilingRecords /\ x.at = "started" /\ x.who = filing[f].who /\ x.seen = filing[f].seen
        /\ x.number = filing[f].number
    BY <2>1, FilingFacts DEF FilingRecords
  <2>3. filing' = [filing EXCEPT ![f] = x]  BY <1>4, FilingFacts DEF FilingRecords
  <2> HIDE DEF x
  <2>4. QED  BY <1>3, <1>4, <2>1, <2>2, <2>3
<1>5. ASSUME NEW to \in {"approve", "refuse"}, filing[f].at = "querying", UNCHANGED certified,
             FilingMoves(f, to)
      PROVE  KycInv'
  <2> DEFINE x == [filing[f] EXCEPT !.at = to]
  <2>1. /\ x \in FilingRecords /\ x.at = to /\ x.who = filing[f].who /\ x.seen = filing[f].seen
        /\ x.number = filing[f].number
    BY FilingFacts DEF FilingRecords
  <2>2. filing' = [filing EXCEPT ![f] = x]  BY <1>5, FilingFacts DEF FilingMoves, FilingRecords
  <2>3. certified' \in 0..MaxCertify  BY <1>5, FilingFacts
  <2> HIDE DEF x
  <2>4. QED  BY <1>3, <1>5, <2>1, <2>2, <2>3
<1>6. CASE CertificationStarts(f)  BY <1>2, <1>4, <1>6 DEF CertificationStarts
<1>7. CASE VerdictComes(f)  BY <1>2, <1>5, <1>7 DEF VerdictComes
<1>8. QED  BY <1>6, <1>7

\* A certification is entered: no photos, no number.
LEMMA Entering ==
  ASSUME KycInv, NEW f \in Filings, SaveExternal(f)
  PROVE  KycInv'
<1> DEFINE u == filing[f].who
           y == [NoVerification EXCEPT !.status = "pending", !.certify = filing[f].certify]
<1>1. /\ filing[f].at = "started" /\ Filed(f) /\ UNCHANGED <<photos, certified, overtaken, skewed>>
      /\ identity' = [identity EXCEPT ![u] = y] \/ UNCHANGED identity
  BY DEF SaveExternal
<1>2. CASE UNCHANGED identity
  BY <1>1, <1>2, FilingFacts, FilingEnds
<1>3. CASE identity' = [identity EXCEPT ![u] = y]
  <2>1. u \in Applicants  BY <1>1, FilingFacts
  <2>2. /\ y \in Records /\ y.photo = "none" /\ y.number = "none" /\ y.status = "pending"
    BY FilingFacts, KycAssumption DEF Records, FilingRecords, NoVerification
  <2>3. /\ photos' \subseteq photos /\ certified' = certified
        /\ \A w \in Applicants \ {u} : identity[w].photo # "none" => identity[w].photo \in photos'
    BY <1>1, FilingFacts
  <2>4. \A g \in Filings : filing[g].at = "stored" => filing[g].photo \in photos'
    BY <1>1 DEF KycInv, StoredAlone
  <2>5. overtaken' \in BOOLEAN /\ skewed' \in BOOLEAN /\ (overtaken => overtaken') /\ (skewed => skewed')
    BY <1>1 DEF KycInv, KycTypeOK
  <2> HIDE DEF y, u
  <2>6. QED  BY <1>1, <1>3, <2>1, <2>2, <2>3, <2>4, <2>5, RecordStep
<1>4. QED  BY <1>1, <1>2, <1>3

\* A status is written, by a verdict or a review, to the record there is.
LEMMA StatusStep ==
  ASSUME KycInv, NEW f \in Filings, NEW verdict \in {"approved", "rejected"},
         filing[f].at \in {"approve", "refuse", "grant", "deny"}, Filed(f), WriteStatus(f, verdict),
         UNCHANGED <<photos, certified>>, skewed' \in BOOLEAN, skewed => skewed',
         ~overtaken' /\ ~skewed' /\ verdict = "approved" /\ filing[f].number # "none"
           /\ identity[filing[f].who] # NoVerification =>
            /\ ~Taken(filing[f].who, filing[f].number)
            /\ \A g \in Filings : filing[g].at = "grant" /\ filing[g].number = filing[f].number =>
                  filing[g].who = filing[f].who
  PROVE  KycInv'
<1> DEFINE u == filing[f].who
           y == [identity[u] EXCEPT !.status = verdict]
<1>1. u \in Applicants  BY DEF KycInv, FilingsKnow
<1>2. identity[u] \in Records /\ identity \in [Applicants -> Records]  BY <1>1 DEF KycInv, KycTypeOK
<1>3. overtaken \in BOOLEAN /\ skewed \in BOOLEAN  BY DEF KycInv, KycTypeOK
<1>4. \A g \in Filings : filing[g].at = "stored" => filing[g].photo \in photos'
  BY DEF KycInv, StoredAlone
<1>5. photos' \subseteq photos /\ certified' = certified /\ \E g \in Filings : Filed(g)
  OBVIOUS
<1>6. /\ \A w \in Applicants : identity[w].photo # "none" => identity[w].photo \in photos'
      /\ identity[u].certify # 0 => identity[u].number = "none"
  BY <1>1 DEF KycInv, PhotosHeld, FilingsKnow
<1>7. CASE identity[u] = NoVerification
  <2> DEFINE z == identity[u]
  <2>1. identity' = [identity EXCEPT ![u] = z] /\ overtaken' = overtaken
    BY <1>1, <1>2, <1>7 DEF WriteStatus
  <2>2. z.status = "none"  BY <1>7, EmptyRecords
  <2>3. z \in Records /\ (z.certify # 0 => z.number = "none") /\ z.photo = identity[u].photo
    BY <1>2, <1>6
  <2> HIDE DEF z, u
  <2>4. z.status # "approved"  BY <2>2
  <2>5. QED  BY <1>1, <1>3, <1>4, <1>5, <1>6, <2>1, <2>3, <2>4, RecordStep
<1>8. CASE identity[u] # NoVerification
  <2>1. /\ y \in Records /\ y.photo = identity[u].photo /\ y.number = identity[u].number
        /\ y.certify = identity[u].certify /\ y.status = verdict
    BY <1>2 DEF Records
  <2>2. /\ identity' = [identity EXCEPT ![u] = y]
        /\ overtaken' = (overtaken \/ identity[u].number # filing[f].number)
    BY <1>1, <1>2, <1>8 DEF WriteStatus, Records
  <2>3. overtaken' \in BOOLEAN /\ (overtaken => overtaken')  BY <1>3, <2>2
  <2>4. ~overtaken' => y.number = filing[f].number  BY <1>3, <2>1, <2>2
  <2>5. y.certify # 0 => y.number = "none"  BY <1>6, <2>1
  <2>6. ~overtaken' /\ ~skewed' /\ y.status = "approved" /\ y.number # "none" =>
            /\ ~Taken(u, y.number)
            /\ \A g \in Filings : filing[g].at = "grant" /\ filing[g].number = y.number => filing[g].who = u
    BY <1>8, <2>1, <2>4
  <2> HIDE DEF y, u
  <2>7. QED  BY <1>1, <1>4, <1>5, <1>6, <2>1, <2>2, <2>3, <2>5, <2>6, RecordStep
<1>9. QED  BY <1>7, <1>8

\* A verdict is written: the record it was asked for has no number.
LEMMA Deciding ==
  ASSUME KycInv, NEW f \in Filings, WriteVerdict(f)
  PROVE  KycInv'
<1> DEFINE verdict == IF filing[f].at = "approve" THEN "approved" ELSE "rejected"
<1>1. /\ filing[f].at \in {"approve", "refuse"} /\ Filed(f) /\ WriteStatus(f, verdict)
      /\ UNCHANGED <<photos, certified>> /\ UNCHANGED skewed
  BY DEF WriteVerdict
<1>2. filing[f].number = "none"  BY <1>1 DEF KycInv, FilingsKnow
<1>3. skewed' \in BOOLEAN /\ (skewed => skewed')  BY <1>1 DEF KycInv, KycTypeOK
<1>4. verdict \in {"approved", "rejected"}  OBVIOUS
<1> HIDE DEF verdict
<1>5. QED  BY <1>1, <1>2, <1>3, <1>4, StatusStep

\* The other approved records are counted.
LEMMA OthersCounted ==
  ASSUME KycInv, NEW f \in Filings, ReviewCounts(f)
  PROVE  KycInv'
<1>1. filing[f].at = "reviewing" /\ UNCHANGED <<identity, photos, certified, overtaken, skewed>>
  BY DEF ReviewCounts
<1>2. CASE Filed(f)  BY <1>1, <1>2, FilingFacts, FilingEnds
<1>3. ASSUME NEW to \in {"grant", "deny"}, FilingMoves(f, to),
             to = "grant" => MayApprove(filing[f].who, filing[f].number)
      PROVE  KycInv'
  <2> DEFINE x == [filing[f] EXCEPT !.at = to]
  <2>1. /\ x \in FilingRecords /\ x.at = to /\ x.who = filing[f].who /\ x.seen = filing[f].seen
        /\ x.number = filing[f].number
    BY FilingFacts DEF FilingRecords
  <2>2. filing' = [filing EXCEPT ![f] = x]  BY <1>3, FilingFacts DEF FilingMoves, FilingRecords
  <2> HIDE DEF x
  <2>3. x.who \in Applicants  BY <1>1, <2>1, FilingFacts
  <2>4. x.at = "grant" => ~Taken(x.who, x.number)  BY <1>3, <2>1 DEF MayApprove
  <2>5. photos' \subseteq Papers /\ certified' \in 0..MaxCertify  BY <1>1, FilingFacts
  <2>6. \A w \in Applicants : identity[w].photo # "none" => identity[w].photo \in photos'
    BY <1>1, FilingFacts
  <2>7. \A g \in Filings \ {f} : filing[g].at = "stored" =>
            filing[g].photo \in photos' /\ x.seen.photo # filing[g].photo
    BY <1>1, <2>1, FilingFacts
  <2>8. x.at # "stored" /\ x.at \notin {"querying", "approve", "refuse"} /\ x.at \notin {"checked", "stored", "saved"}
    BY <2>1
  <2>9. QED  BY <1>1, <2>1, <2>2, <2>3, <2>4, <2>5, <2>6, <2>7, <2>8, FilingStep
<1>4. QED  BY <1>2, <1>3 DEF ReviewCounts

\* A review writes: what it counted stands, unless one of the exceptions just came about.
LEMMA Reviewing ==
  ASSUME KycInv, NEW f \in Filings, ReviewWrites(f)
  PROVE  KycInv'
<1> DEFINE verdict == IF filing[f].at = "grant" THEN "approved" ELSE "rejected"
           u == filing[f].who
<1>1. /\ filing[f].at \in {"grant", "deny"} /\ Filed(f) /\ WriteStatus(f, verdict)
      /\ UNCHANGED <<photos, certified>>
      /\ skewed' = (skewed \/ (identity'[u].status = "approved" /\ Skews(f)))
  BY DEF ReviewWrites
<1>2. skewed \in BOOLEAN /\ overtaken \in BOOLEAN /\ identity \in [Applicants -> Records]
  BY DEF KycInv, KycTypeOK
<1>3. skewed' \in BOOLEAN /\ (skewed => skewed')
  <2>1. Skews(f) \in BOOLEAN  BY DEF Skews
  <2>2. QED  BY <1>1, <1>2, <2>1
<1>4. u \in Applicants  BY <1>1 DEF KycInv, FilingsKnow
<1>5. ASSUME ~overtaken', ~skewed', verdict = "approved", filing[f].number # "none",
             identity[u] # NoVerification
      PROVE  /\ ~Taken(u, filing[f].number)
             /\ \A g \in Filings : filing[g].at = "grant" /\ filing[g].number = filing[f].number =>
                   filing[g].who = u
  <2>1. /\ identity' = [identity EXCEPT ![u].status = "approved"]
        /\ overtaken' = (overtaken \/ identity[u].number # filing[f].number)
    BY <1>1, <1>5 DEF WriteStatus
  <2>2. identity'[u].status = "approved"  BY <1>2, <1>4, <2>1 DEF Records
  <2>3. ~overtaken /\ ~skewed /\ ~Skews(f)  BY <1>1, <1>2, <1>5, <2>1, <2>2
  <2>4. filing[f].at = "grant"  BY <1>5
  <2>5. ~Taken(u, filing[f].number)  BY <1>5, <2>3, <2>4 DEF KycInv, CountStands
  <2>6. \A g \in Filings : filing[g].at = "grant" /\ filing[g].number = filing[f].number =>
            filing[g].who = u
    BY <1>5, <2>3 DEF Skews
  <2>7. QED  BY <2>5, <2>6
<1>6. verdict \in {"approved", "rejected"}  OBVIOUS
<1> HIDE DEF verdict
<1>7. QED  BY <1>1, <1>3, <1>5, <1>6, StatusStep

\* The record goes with its account.
LEMMA Dropping ==
  ASSUME KycInv, NEW u \in Applicants, DropIdentity(u)
  PROVE  KycInv'
<1>1. \A g \in Filings : filing[g].at = "stored" =>
          filing[g].photo \in photos /\ filing[g].photo # identity[u].photo
  BY DEF KycInv, StoredAlone
<1>2. /\ identity' = [identity EXCEPT ![u] = NoVerification]
      /\ photos' = photos \ {identity[u].photo} /\ UNCHANGED <<filing, certified, overtaken, skewed>>
  BY DEF DropIdentity
<1>3. overtaken' \in BOOLEAN /\ skewed' \in BOOLEAN /\ (overtaken => overtaken') /\ (skewed => skewed')
  BY <1>2 DEF KycInv, KycTypeOK
<1>4. \A w \in Applicants \ {u} : identity[w].photo # "none" => identity[w].photo \in photos'
  BY <1>2 DEF KycInv, PhotosHeld
<1>5. \A g \in Filings : filing[g].at = "stored" => filing[g].photo \in photos'
  BY <1>1, <1>2
<1>6. photos' \subseteq photos  BY <1>2
<1>7. QED  BY <1>2, <1>3, <1>4, <1>5, <1>6, EmptyRecords, RecordStep

LEMMA KycStep == KycInv /\ [KycNext]_kycVars => KycInv'
<1> SUFFICES ASSUME KycInv, [KycNext]_kycVars PROVE KycInv'  OBVIOUS
<1>1. ASSUME UNCHANGED kycVars PROVE KycInv'
  <2>1. UNCHANGED <<identity, photos, filing, certified, overtaken, skewed>>  BY <1>1 DEF kycVars
  <2>2. KycTypeOK' /\ PhotosHeld' /\ OneAccountPerNumber'
    BY <2>1 DEF KycInv, KycTypeOK, PhotosHeld, OneAccountPerNumber, Taken
  <2>3. FilingsKnow' /\ CountStands' /\ StoredAlone' /\ OldIsOwn'
    BY <2>1 DEF KycInv, FilingsKnow, CountStands, Taken, StoredAlone, OldIsOwn
  <2>4. QED  BY <2>2, <2>3 DEF KycInv
<1>2. ASSUME NEW f \in Filings, NEW u \in Applicants,
             \/ CheckExternal(f, u) \/ AskVerdict(f, u) \/ ReviewReads(f, u)
             \/ \E n \in IdNumbers : CheckSubmission(f, u, n)
      PROVE  KycInv'
  BY <1>2, Reading
<1>3. ASSUME NEW f \in Filings,
             \/ StorePhotos(f) \/ SaveSubmission(f) \/ RemoveOldPhotos(f)
             \/ CertificationStarts(f) \/ SaveExternal(f) \/ VerdictComes(f) \/ WriteVerdict(f)
             \/ ReviewCounts(f) \/ ReviewWrites(f)
      PROVE  KycInv'
  BY <1>3, Storing, Saving, RemovingOld, Certifying, Entering, Deciding, OthersCounted, Reviewing
<1>4. ASSUME NEW u \in Applicants, DropIdentity(u) PROVE KycInv'
  BY <1>4, Dropping
<1>5. QED  BY <1>1, <1>2, <1>3, <1>4 DEF KycNext

-----------------------------------------------------------------------------
(* The theorems.                                                           *)

\* For every number of accounts, requests, numbers and photos: the photos a record
\* references exist and are its own, and a number is approved for one account, however
\* submissions, certifications and reviews overlap, until a verdict is written on a
\* record of another number, or a review approves a number that another review has
\* counted free and not yet written (kyc.go).
THEOREM KycHolds == KycSpec => [](PhotosHeld /\ OneAccountPerNumber)
<1>1. KycInv => PhotosHeld /\ OneAccountPerNumber  BY DEF KycInv
<1>2. QED  BY KycStart, KycStep, <1>1, PTL DEF KycSpec

\* For every number of tickets, replies and files: the files a ticket's rows
\* reference exist, and it waits for the side that did not speak last (ticket.go).
THEOREM TicketsHold == TicketsSpec => [](AttachmentsHeld /\ WaitsForTheOther)
<1>1. TicketsInv => AttachmentsHeld /\ WaitsForTheOther  BY DEF TicketsInv
<1>2. QED  BY TicketsStart, TicketsStep, <1>1, PTL DEF TicketsSpec

\* Both, as the composition states them: what the rows of tickets and of proofs of
\* identity reference is on the disk (kyc.go, ticket.go).
THEOREM FilesAreHeld == PlatformSpec => []FilesHeld
<1> DEFINE Inv == (part = "kyc" => KycInv) /\ (part = "tickets" => TicketsInv)
<1>1. PlatformInit => Inv  BY KycStart, TicketsStart DEF PlatformInit
<1>2. Inv /\ [PlatformNext]_platformVars => Inv'
  <2> SUFFICES ASSUME Inv, [PlatformNext]_platformVars PROVE Inv'  OBVIOUS
  <2>1. UNCHANGED part  BY DEF PlatformNext, Still, platformVars
  <2>2. ASSUME part = "kyc" PROVE [KycNext]_kycVars
    BY <2>2 DEF PlatformNext, platformVars
  <2>3. ASSUME part = "tickets" PROVE [TicketsNext]_ticketVars
    BY <2>3 DEF PlatformNext, platformVars
  <2>4. part = "kyc" => KycInv'  BY <2>2, KycStep
  <2>5. part = "tickets" => TicketsInv'  BY <2>3, TicketsStep
  <2>6. QED  BY <2>1, <2>4, <2>5
<1>3. Inv => FilesHeld  BY DEF FilesHeld, KycInv, TicketsInv
<1>4. QED  BY <1>1, <1>2, <1>3, PTL DEF PlatformSpec

-----------------------------------------------------------------------------
(* The host of a service.                                                  *)

SomeHost == Hosts \cup {NoHost}
AtWork == {"called", "made"}

\* What holds however the requests run.
ProvisionShape ==
    /\ svc \in [status : Status, host : SomeHost]
    /\ hosts \subseteq Hosts
    /\ call \in [Requests -> [at : {"idle", "done"} \cup AtWork, host : SomeHost]]
    /\ deletion \in [on : BOOLEAN, host : SomeHost]
    /\ \A r \in Requests : call[r].at # "made" => call[r].host = NoHost

\* What holds as long as none of the things happened that cost a host: one request
\* at a time, for a service without a host, and no retry of one that has it; a
\* deletion has terminated the host the row still names.
OneOwner ==
    /\ \A r \in Requests : \A q \in Requests :
          call[r].at \in AtWork /\ call[q].at \in AtWork => r = q
    /\ Busy => svc.host = NoHost
    /\ svc.host # NoHost => ~Retriable
    /\ deletion.on /\ deletion.host # NoHost => svc.host = deletion.host /\ deletion.host \notin hosts
    /\ hosts \subseteq {svc.host} \cup {call[r].host : r \in Requests}

ProvisionInv == ProvisionShape /\ (~accident => OneOwner)

LEMMA ProvisionStart == ProvisionInit => ProvisionInv
BY ProvisionAssumption DEF ProvisionInit, ProvisionInv, ProvisionShape, OneOwner, Status, SomeHost,
   AtWork, NoHost, Unstarted, Busy, Retriable

\* The row after a write.
LEMMA Written ==
  ASSUME ProvisionShape, NEW status \in Status, NEW h \in SomeHost, WriteService(status, h)
  PROVE  svc' \in [status : Status, host : SomeHost]
BY DEF ProvisionShape, WriteService

LEMMA Starting ==
  ASSUME ProvisionInv, NEW r \in Requests, StartProvision(r)
  PROVE  ProvisionInv'
<1>1. ProvisionShape /\ call[r].at = "idle" /\ Retriable /\ accident' = (accident \/ Busy)
      /\ UNCHANGED <<link, hosts, deletion, adminEdits>>
  BY DEF ProvisionInv, StartProvision
<1>2. CASE call' = [call EXCEPT ![r].at = "called"] /\ UNCHANGED svc
  <2>1. ProvisionShape'  BY <1>1, <1>2 DEF ProvisionShape, AtWork
  <2>2. ASSUME ~accident' PROVE OneOwner'
    <3>1. OneOwner /\ ~Busy  BY <1>1, <2>2 DEF ProvisionInv
    <3>2. svc.host = NoHost  BY <1>1, <3>1 DEF OneOwner
    <3>3. \A q \in Requests : call'[q].at \in AtWork => q = r
      BY <1>1, <1>2, <3>1 DEF Busy, AtWork, ProvisionShape
    <3>4. {call'[q].host : q \in Requests} = {call[q].host : q \in Requests}
      BY <1>1, <1>2 DEF ProvisionShape
    <3>5. QED  BY <1>1, <1>2, <3>1, <3>2, <3>3, <3>4 DEF OneOwner, Retriable, Busy
  <2>3. QED  BY <2>1, <2>2 DEF ProvisionInv
<1>3. CASE Finish(r) /\ WriteService("failed", svc.host)
  <2>1. call' = [call EXCEPT ![r] = [at |-> "done", host |-> NoHost]]  BY <1>3 DEF Finish
  <2>2. svc.host \in SomeHost /\ svc' = [status |-> "failed", host |-> svc.host]
    BY <1>1, <1>3 DEF ProvisionShape, WriteService, Retriable
  <2>3. ProvisionShape'
    BY <1>1, <2>1, <2>2 DEF ProvisionShape, AtWork, Status, SomeHost
  <2>4. ASSUME ~accident' PROVE OneOwner'
    <3>1. OneOwner /\ ~Busy  BY <1>1, <2>4 DEF ProvisionInv
    <3>2. svc.host = NoHost /\ svc'.host = NoHost  BY <1>1, <2>2, <3>1 DEF OneOwner
    <3>3. \A q \in Requests : call'[q].at \notin AtWork
      BY <1>1, <2>1, <3>1 DEF Busy, AtWork, ProvisionShape
    <3>4. hosts \subseteq {NoHost}
      BY <1>1, <3>1, <3>2 DEF OneOwner, ProvisionShape, Busy, AtWork
    <3>5. QED  BY <1>1, <3>1, <3>2, <3>3, <3>4 DEF OneOwner, Busy, AtWork
  <2>5. QED  BY <2>3, <2>4 DEF ProvisionInv
<1>4. QED  BY <1>2, <1>3 DEF StartProvision

LEMMA Answering ==
  ASSUME ProvisionInv, NEW r \in Requests, OrderAnswered(r)
  PROVE  ProvisionInv'
<1>1. ProvisionShape /\ call[r].at = "called" /\ UNCHANGED <<link, deletion, adminEdits>>
      /\ call[r].host = NoHost /\ Busy
  BY DEF ProvisionInv, OrderAnswered, ProvisionShape, Busy
<1>2. ASSUME NEW h \in Hosts \ hosts, hosts' = hosts \cup {h},
             call' = [call EXCEPT ![r] = [at |-> "made", host |-> h]], UNCHANGED <<svc, accident>>
      PROVE  ProvisionInv'
  <2>1. ProvisionShape'  BY <1>1, <1>2 DEF ProvisionShape, AtWork, SomeHost
  <2>2. ASSUME ~accident' PROVE OneOwner'
    <3>1. OneOwner /\ svc.host = NoHost  BY <1>1, <1>2, <2>2 DEF ProvisionInv, OneOwner
    <3>2. \A q \in Requests : call'[q].at \in AtWork => q = r
      BY <1>1, <1>2, <3>1 DEF OneOwner, AtWork, ProvisionShape
    <3>3. \A q \in Requests : q # r => call'[q].host = call[q].host
      BY <1>1, <1>2 DEF ProvisionShape
    <3>4. call'[r].host = h  BY <1>1, <1>2 DEF ProvisionShape
    <3>5. hosts' \subseteq {svc'.host} \cup {call'[q].host : q \in Requests}
      BY <1>1, <1>2, <3>1, <3>3, <3>4 DEF OneOwner
    <3>6. deletion.host = NoHost \/ ~deletion.on  BY <3>1 DEF OneOwner
    <3>7. QED  BY <1>1, <1>2, <3>1, <3>2, <3>5, <3>6 DEF OneOwner
  <2>3. QED  BY <2>1, <2>2 DEF ProvisionInv
<1>3. ASSUME Finish(r), WriteService("failed", svc.host),
             hosts' = hosts \/ (accident' /\ hosts' \subseteq Hosts), accident' \/ ~accident
      PROVE  ProvisionInv'
  <2>1. call' = [call EXCEPT ![r] = [at |-> "done", host |-> NoHost]]  BY <1>3 DEF Finish
  <2>2. svc.host \in SomeHost /\ svc' \in [status : Status, host : SomeHost]
    BY <1>1, <1>3, Written DEF ProvisionShape, Status
  <2>3. ProvisionShape'  BY <1>1, <1>3, <2>1, <2>2 DEF ProvisionShape, AtWork, SomeHost
  <2>4. ASSUME ~accident' PROVE OneOwner'
    <3>1. OneOwner /\ svc.host = NoHost /\ hosts' = hosts
      BY <1>1, <1>3, <2>4 DEF ProvisionInv, OneOwner
    <3>2. svc'.host = NoHost  BY <1>3, <3>1 DEF WriteService
    <3>3. \A q \in Requests : call'[q].at \notin AtWork /\ call'[q].host = NoHost
      BY <1>1, <2>1, <3>1 DEF OneOwner, AtWork, ProvisionShape
    <3>4. \A q \in Requests : call[q].host = NoHost
      BY <1>1, <3>1 DEF OneOwner, AtWork, ProvisionShape
    <3>5. hosts \subseteq {NoHost}  BY <3>1, <3>4 DEF OneOwner
    <3>6. QED  BY <1>1, <3>1, <3>2, <3>3, <3>5 DEF OneOwner, Busy, AtWork
  <2>5. QED  BY <2>3, <2>4 DEF ProvisionInv
<1>4. QED
  <2>1. \/ \E h \in Hosts \ hosts : /\ hosts' = hosts \cup {h} /\ UNCHANGED <<svc, accident>>
                                    /\ call' = [call EXCEPT ![r] = [at |-> "made", host |-> h]]
        \/ /\ Finish(r) /\ WriteService("failed", svc.host)
           /\ \/ accident' = TRUE /\ \E h \in Hosts \ hosts : hosts' = hosts \cup {h}
              \/ UNCHANGED <<hosts, accident>>
    BY DEF OrderAnswered
  <2>2. hosts \subseteq Hosts  BY <1>1 DEF ProvisionShape
  <2>3. QED  BY <1>2, <1>3, <2>1, <2>2

LEMMA Recording ==
  ASSUME ProvisionInv, NEW r \in Requests, RecordHost(r) \/ ProvisionLost(r)
  PROVE  ProvisionInv'
<1>1. ProvisionShape /\ call[r].at \in AtWork /\ UNCHANGED <<link, hosts, deletion, adminEdits>>
      /\ call' = [call EXCEPT ![r] = [at |-> "done", host |-> NoHost]]
  BY DEF ProvisionInv, RecordHost, ProvisionLost, AtWork, Finish
<1>2. call[r].host \in SomeHost  BY <1>1 DEF ProvisionShape
<1>3. svc' \in [status : Status, host : SomeHost]
  <2>1. CASE RecordHost(r)
    <3>1. "active" \in Status  BY DEF Status
    <3>2. QED  BY <1>1, <1>2, <2>1, <3>1, Written DEF RecordHost
  <2>2. CASE ProvisionLost(r)  BY <1>1, <2>2 DEF ProvisionLost, ProvisionShape
  <2>3. QED  BY <2>1, <2>2
<1>4. ProvisionShape'  BY <1>1, <1>3 DEF ProvisionShape, AtWork, SomeHost
<1>5. ASSUME ~accident' PROVE OneOwner'
  <2>1. OneOwner  BY <1>5 DEF ProvisionInv, RecordHost, ProvisionLost
  <2>2. svc.host = NoHost  BY <1>1, <2>1 DEF OneOwner, Busy, AtWork
  <2>3. \A q \in Requests : call'[q].at \notin AtWork /\ call'[q].host = NoHost
    BY <1>1, <2>1 DEF OneOwner, AtWork, ProvisionShape
  <2>4. \A q \in Requests : q # r => call[q].host = NoHost
    BY <1>1, <2>1 DEF OneOwner, AtWork, ProvisionShape
  <2>5. hosts \subseteq {NoHost, call[r].host}  BY <2>1, <2>2, <2>4 DEF OneOwner
  <2>6. CASE RecordHost(r)
    <3>1. svc' = [status |-> "active", host |-> call[r].host]
      BY <1>5, <2>6 DEF RecordHost, WriteService
    <3>2. hosts \subseteq Hosts  BY <1>1 DEF ProvisionShape
    <3>3. hosts \subseteq {call[r].host}  BY <2>5, <3>2, ProvisionAssumption DEF NoHost
    <3>4. QED  BY <1>1, <2>1, <2>2, <2>3, <3>1, <3>3 DEF OneOwner, Busy, AtWork, Retriable
  <2>7. CASE ProvisionLost(r)
    <3>1. UNCHANGED svc /\ call[r].host = NoHost
      BY <1>1, <1>5, <2>7 DEF ProvisionLost, ProvisionShape
    <3>2. QED  BY <1>1, <2>1, <2>2, <2>3, <2>5, <3>1 DEF OneOwner, Busy, AtWork, Retriable
  <2>8. QED  BY <2>6, <2>7
<1>6. QED  BY <1>4, <1>5 DEF ProvisionInv

LEMMA Editing ==
  ASSUME ProvisionInv,
         \/ \E iface, serving \in BOOLEAN : EditLink(iface, serving)
         \/ \E status \in {"active", "suspended"} : SetServiceStatus(status)
         \/ \E h \in Hosts : CreateServicesFails(h)
  PROVE  ProvisionInv'
<1>1. ProvisionShape /\ UNCHANGED <<call, deletion>>
  BY DEF ProvisionInv, EditLink, SetServiceStatus, CreateServicesFails
<1>2. CASE \E iface, serving \in BOOLEAN : EditLink(iface, serving)
  BY <1>2 DEF EditLink, ProvisionInv, ProvisionShape, OneOwner, Busy, Retriable
<1>3. CASE \E status \in {"active", "suspended"} : SetServiceStatus(status)
  <2>1. PICK status \in {"active", "suspended"} : SetServiceStatus(status)  BY <1>3
  <2>2. svc' = [svc EXCEPT !.status = status] /\ UNCHANGED <<hosts, accident>>
    BY <2>1 DEF SetServiceStatus
  <2>3. svc' \in [status : Status, host : SomeHost] /\ svc'.host = svc.host
        /\ svc'.status \in {"active", "suspended"}
    BY <1>1, <2>2 DEF ProvisionShape, Status
  <2>4. QED  BY <1>1, <2>2, <2>3 DEF ProvisionInv, ProvisionShape, OneOwner, Busy, Retriable
<1>4. CASE \E h \in Hosts : CreateServicesFails(h)
  BY <1>1, <1>4 DEF CreateServicesFails, ProvisionInv, ProvisionShape
<1>5. QED  BY <1>2, <1>3, <1>4

LEMMA Rebinding ==
  ASSUME ProvisionInv, NEW h \in SomeHost, BindServiceUpstream(h)
  PROVE  ProvisionInv'
<1>1. /\ ProvisionShape /\ UNCHANGED <<link, hosts, call, deletion>>
      /\ svc' = [svc EXCEPT !.host = h] /\ (h # NoHost => h \in hosts)
      /\ accident' = (accident \/ svc.host \notin {NoHost, h} \/ (h # NoHost /\ (Retriable \/ Busy)))
  BY DEF ProvisionInv, BindServiceUpstream
<1>2. svc' \in [status : Status, host : SomeHost] /\ svc'.host = h /\ svc'.status = svc.status
  BY <1>1 DEF ProvisionShape
<1>3. ProvisionShape'  BY <1>1, <1>2 DEF ProvisionShape
<1>4. ASSUME ~accident' PROVE OneOwner'
  <2>1. OneOwner /\ svc.host \in {NoHost, h} /\ (h # NoHost => ~Retriable /\ ~Busy)
    BY <1>1, <1>4 DEF ProvisionInv
  <2>2. h = svc.host
    <3>1. SUFFICES ASSUME h # NoHost, svc.host = NoHost PROVE FALSE  BY <2>1
    <3>2. \A q \in Requests : call[q].host = NoHost
      BY <1>1, <2>1, <3>1 DEF ProvisionShape, Busy, AtWork
    <3>3. h \in {NoHost}  BY <1>1, <2>1, <3>1, <3>2 DEF OneOwner
    <3>4. QED  BY <3>1, <3>3
  <2>3. QED  BY <1>1, <1>2, <2>1, <2>2 DEF OneOwner, Busy, Retriable
<1>5. QED  BY <1>3, <1>4 DEF ProvisionInv

LEMMA Removing ==
  ASSUME ProvisionInv, StartDelete \/ DeleteService
  PROVE  ProvisionInv'
<1>0. ProvisionShape  BY DEF ProvisionInv
<1>1. CASE StartDelete
  <2>1. /\ ~deletion.on /\ UNCHANGED <<svc, link, call, accident>>
        /\ hosts' = hosts \ {svc.host} /\ deletion' = [on |-> TRUE, host |-> svc.host]
    BY <1>1 DEF StartDelete
  <2>2. ProvisionShape'  BY <1>0, <2>1 DEF ProvisionShape
  <2>3. OneOwner => OneOwner'  BY <2>1 DEF OneOwner, Busy, Retriable
  <2>4. QED  BY <2>1, <2>2, <2>3 DEF ProvisionInv
<1>2. CASE DeleteService
  <2>1. /\ deletion.on /\ UNCHANGED <<link, hosts, call, adminEdits>>
        /\ svc' = [status |-> "deleted", host |-> NoHost]
        /\ deletion' = [on |-> FALSE, host |-> NoHost]
        /\ accident' = (accident \/ svc.host # deletion.host)
    BY <1>2 DEF DeleteService
  <2>2. ProvisionShape'  BY <1>0, <2>1 DEF ProvisionShape, Status, SomeHost
  <2>3. ASSUME ~accident' PROVE OneOwner'
    <3>1. OneOwner /\ svc.host = deletion.host  BY <2>1, <2>3 DEF ProvisionInv
    <3>2. svc.host # NoHost => svc.host \notin hosts  BY <2>1, <3>1 DEF OneOwner
    <3>3. hosts \subseteq {NoHost} \cup {call[q].host : q \in Requests}
      BY <3>1, <3>2 DEF OneOwner
    <3>4. QED  BY <2>1, <3>1, <3>3 DEF OneOwner, Busy, Retriable
  <2>4. QED  BY <2>2, <2>3 DEF ProvisionInv
<1>3. QED  BY <1>1, <1>2

LEMMA ProvisionStep == ProvisionInv /\ [ProvisionNext]_provisionVars => ProvisionInv'
<1> SUFFICES ASSUME ProvisionInv, [ProvisionNext]_provisionVars PROVE ProvisionInv'  OBVIOUS
<1>1. CASE UNCHANGED provisionVars
  BY <1>1 DEF provisionVars, ProvisionInv, ProvisionShape, OneOwner, Busy, Retriable
<1>2. ASSUME NEW r \in Requests,
             StartProvision(r) \/ OrderAnswered(r) \/ RecordHost(r) \/ ProvisionLost(r)
      PROVE  ProvisionInv'
  BY <1>2, Starting, Answering, Recording
<1>3. ASSUME \/ \E h \in Hosts : BindServiceUpstream(h)
             \/ BindServiceUpstream(NoHost)
      PROVE  ProvisionInv'
  BY <1>3, Rebinding DEF SomeHost
<1>4. QED  BY <1>1, <1>2, <1>3, Editing, Removing DEF ProvisionNext

-----------------------------------------------------------------------------
(* The machines of the estate.                                             *)

ErrandRow == [at : {"idle", "opening", "binding", "terminate", "delete", "batch", "cascade"},
              who : Tenants \cup {"none"}, row : Rows \cup {"none"},
              machine : Machines \cup {NoMachine}, made : SUBSET Machines,
              left : Int, listed : SUBSET Rows, rest : SUBSET Rows]

EstateShape ==
    /\ upstream \subseteq ordered /\ ordered \subseteq Machines
    /\ row \in [Rows -> [life : {"none", "here", "gone"}, owner : Tenants \cup {"none"},
                         machine : Machines \cup {NoMachine}]]
    /\ errand \in [Errands -> ErrandRow]

\* No machine is named that was not ordered.
NamesOrdered ==
    /\ \A s \in Rows : row[s].machine \in ordered \cup {NoMachine}
    /\ \A e \in Errands : errand[e].made \subseteq ordered
                          /\ errand[e].machine \in ordered \cup {NoMachine}

\* Where an errand is: only an opening holds machines without a row; what is about
\* to be deleted has been terminated; what a batch has done with is gone.
Stands(x) ==
    /\ x.made # {} => x.at = "opening"
    /\ x.at \in {"binding", "terminate", "delete"} => x.row \in Rows
    /\ x.at = "delete" => x.machine \notin upstream
    /\ x.at = "idle" => x.listed = {}
    /\ x.at \in {"batch", "cascade"} => \A s \in x.listed \ x.rest : row[s].life = "gone"
    /\ x.at \in {"terminate", "delete"} =>
          \A s \in x.listed \ (x.rest \cup {x.row}) : row[s].life = "gone"
    /\ x.at = "cascade" => x.rest = {}

ErrandsStand == \A e \in Errands : Stands(errand[e])

EstateInv == EstateShape /\ NamesOrdered /\ ErrandsStand /\ NoMachineLost

\* Where a running machine belongs.
Home(m) == \/ \E s \in Rows : row[s].life = "here" /\ row[s].machine = m
           \/ m \in stray
           \/ \E e \in Errands : m \in errand[e].made

LEMMA Homes ==
  /\ NoMachineLost <=> \A m \in upstream : Home(m)
  /\ NoMachineLost' <=> \A m \in upstream' : Home(m)'
<1>1. NoMachineLost <=> \A m \in upstream : Home(m)  BY DEF NoMachineLost, Bound, Home
<1>2. NoMachineLost' <=> \A m \in upstream' : Home(m)'  BY DEF NoMachineLost, Bound, Home
<1>3. QED  BY <1>1, <1>2

LEMMA EstateStart == EstateInit => EstateInv
<1> SUFFICES ASSUME EstateInit PROVE EstateInv  OBVIOUS
<1>1. upstream = {} /\ ordered = {} /\ row = [s \in Rows |-> NoRow]
      /\ errand = [e \in Errands |-> NoErrand]
  BY DEF EstateInit
<1>2. EstateShape  BY <1>1 DEF EstateShape, NoRow, NoErrand, ErrandRow
<1>3. NamesOrdered  BY <1>1 DEF NamesOrdered, NoRow, NoErrand
<1>4. ErrandsStand  BY <1>1 DEF ErrandsStand, Stands, NoErrand
<1>5. QED  BY <1>1, <1>2, <1>3, <1>4 DEF EstateInv, NoMachineLost

\* One errand moves on and no row of an errand that stands comes back: the others stand.
LEMMA OthersStand ==
  ASSUME EstateInv, EstateShape', NEW e \in Errands, NEW new \in ErrandRow,
         errand' = [errand EXCEPT ![e] = new], Stands(new)', ordered \subseteq ordered',
         \A s \in Rows : row[s].life = "gone" => row'[s].life = "gone",
         upstream' \cap ordered \subseteq upstream
  PROVE  ErrandsStand'
<1> SUFFICES ASSUME NEW d \in Errands PROVE Stands(errand[d])'  BY DEF ErrandsStand
<1>1. CASE d = e
  <2>1. errand'[d] = new  BY <1>1 DEF EstateInv, EstateShape
  <2>2. QED  BY <2>1 DEF Stands
<1>2. CASE d # e
  <2>1. errand'[d] = errand[d]  BY <1>2 DEF EstateInv, EstateShape
  <2>2. Stands(errand[d])  BY DEF EstateInv, ErrandsStand
  <2>3. errand[d].machine \in ordered \cup {NoMachine} /\ errand[d] \in ErrandRow
    BY DEF EstateInv, EstateShape, NamesOrdered
  <2>4. errand[d].machine \notin upstream => errand[d].machine \notin upstream'
    BY <2>3, EstateAssumption DEF EstateShape
  <2>5. errand[d].listed \subseteq Rows  BY <2>3 DEF ErrandRow
  <2> DEFINE x == errand[d]
  <2>6. /\ x.at \in {"batch", "cascade"} => \A s \in x.listed \ x.rest : row'[s].life = "gone"
        /\ x.at \in {"terminate", "delete"} =>
              \A s \in x.listed \ (x.rest \cup {x.row}) : row'[s].life = "gone"
    BY <2>2, <2>5 DEF Stands
  <2>7. QED  BY <2>1, <2>2, <2>4, <2>6 DEF Stands
<1>3. QED  BY <1>1, <1>2

\* The names after an errand moved on.
LEMMA NamesStay ==
  ASSUME EstateInv, NEW e \in Errands, NEW new \in ErrandRow,
         errand' = [errand EXCEPT ![e] = new], ordered \subseteq ordered',
         new.made \subseteq ordered', new.machine \in ordered' \cup {NoMachine},
         \A s \in Rows : row'[s].machine \in ordered' \cup {NoMachine}
  PROVE  NamesOrdered'
<1>1. \A d \in Errands : errand'[d] = IF d = e THEN new ELSE errand[d]
  BY DEF EstateInv, EstateShape
<1>2. \A d \in Errands : errand[d].made \subseteq ordered
                         /\ errand[d].machine \in ordered \cup {NoMachine}
  BY DEF EstateInv, NamesOrdered
<1>3. QED  BY <1>1, <1>2 DEF NamesOrdered

\* A step that touches no row and orders no machine.
LEMMA MovesOn ==
  ASSUME EstateInv, NEW e \in Errands, NEW new \in ErrandRow,
         errand' = [errand EXCEPT ![e] = new], UNCHANGED <<row, ordered, stray>>,
         upstream' \subseteq upstream, errand[e].made \subseteq new.made, Stands(new)',
         new.made \subseteq ordered, new.machine \in ordered \cup {NoMachine}
  PROVE  EstateInv'
<1>1. EstateShape'  BY DEF EstateInv, EstateShape
<1>2. NamesOrdered'
  <2>1. \A s \in Rows : row'[s].machine \in ordered' \cup {NoMachine}
    BY DEF EstateInv, NamesOrdered
  <2>2. QED  BY <2>1, NamesStay
<1>3. ErrandsStand'  BY <1>1, OthersStand
<1>4. ASSUME NEW m \in upstream' PROVE Home(m)'
  <2>1. Home(m)  BY Homes DEF EstateInv
  <2>2. \A d \in Errands : m \in errand[d].made => m \in errand'[d].made
    BY DEF EstateInv, EstateShape
  <2>3. QED  BY <2>1, <2>2 DEF Home
<1>5. QED  BY <1>1, <1>2, <1>3, <1>4, Homes DEF EstateInv

LEMMA AtRest ==
  NoErrand \in ErrandRow /\ Stands(NoErrand)' /\ NoErrand.made = {} /\ NoErrand.machine = NoMachine
<1>1. NoErrand \in ErrandRow  BY DEF NoErrand, ErrandRow
<1>2. NoErrand.made = {} /\ NoErrand.machine = NoMachine /\ NoErrand.at = "idle"
      /\ NoErrand.listed = {}
  BY DEF NoErrand
<1>3. Stands(NoErrand)'  BY <1>2 DEF Stands
<1>4. QED  BY <1>1, <1>2, <1>3

\* Only an opening has made machines.
LEMMA MadeNothing ==
  ASSUME EstateInv, NEW e \in Errands, errand[e].at # "opening"
  PROVE  errand[e].made = {}
BY DEF EstateInv, ErrandsStand, Stands

\* CreateServiceForUser: a machine belongs to the opening, then to its row.
LEMMA BeginsOpening ==
  ASSUME EstateInv, NEW e \in Errands, NEW u \in Tenants, NEW q \in 1..MaxQuantity,
         BeginOpening(e, u, q)
  PROVE  EstateInv'
<1> DEFINE new == [NoErrand EXCEPT !.at = "opening", !.who = u, !.left = q]
<1>1. /\ errand' = [errand EXCEPT ![e] = new] /\ errand[e].at = "idle"
      /\ UNCHANGED <<tenant, row, upstream, ordered, stray>>
  BY DEF BeginOpening
<1>2. q \in Int  OBVIOUS
<1>3. new \in ErrandRow /\ new.made = {} /\ new.machine = NoMachine /\ new.at = "opening"
  BY <1>2 DEF NoErrand, ErrandRow
<1> HIDE DEF new
<1>4. Stands(new)'  BY <1>3 DEF Stands
<1>5. errand[e].made = {}  BY <1>1, MadeNothing
<1>6. QED  BY <1>1, <1>3, <1>4, <1>5, MovesOn

LEMMA OpensUnit ==
  ASSUME EstateInv, NEW e \in Errands, NEW m \in Machines, OpenUnit(e, m)
  PROVE  EstateInv'
<1> DEFINE x == errand[e]
<1>a. PICK new : new = [x EXCEPT !.made = @ \cup {m}, !.left = @ - 1]  OBVIOUS
<1>0. x \in ErrandRow /\ x.left - 1 \in Int
  <2>1. x \in ErrandRow  BY DEF EstateInv, EstateShape
  <2>2. x.left \in Int  BY <2>1 DEF ErrandRow
  <2>3. QED  BY <2>1, <2>2
<1>1. /\ errand' = [errand EXCEPT ![e] = new] /\ x.at = "opening" /\ m \notin ordered
      /\ upstream' = upstream \cup {m} /\ ordered' = ordered \cup {m}
      /\ UNCHANGED <<tenant, row, stray>>
  BY <1>a, <1>0 DEF OpenUnit, EstateInv, EstateShape, ErrandRow
<1>2. /\ new \in ErrandRow /\ new.made = x.made \cup {m} /\ new.at = "opening"
      /\ new.machine = x.machine
  BY <1>a, <1>0, <1>1 DEF ErrandRow
<1>3. Stands(new)'  BY <1>2 DEF Stands
<1>4. EstateShape'
  <2>1. errand' \in [Errands -> ErrandRow]  BY <1>1, <1>2 DEF EstateInv, EstateShape
  <2>2. ordered' \subseteq Machines  BY <1>1 DEF EstateInv, EstateShape
  <2>3. upstream' \subseteq ordered'  BY <1>1 DEF EstateInv, EstateShape
  <2>4. QED  BY <1>1, <2>1, <2>2, <2>3 DEF EstateInv, EstateShape
<1>5. NamesOrdered'
  <2>1. x.made \subseteq ordered /\ x.machine \in ordered \cup {NoMachine}
    BY DEF EstateInv, NamesOrdered
  <2>2. \A s \in Rows : row'[s].machine \in ordered' \cup {NoMachine}
    BY <1>1 DEF EstateInv, NamesOrdered
  <2>3. QED  BY <1>1, <1>2, <2>1, <2>2, NamesStay
<1>6. ErrandsStand'
  <2>1. ordered \subseteq ordered' /\ upstream' \cap ordered \subseteq upstream
        /\ \A s \in Rows : row[s].life = "gone" => row'[s].life = "gone"
    BY <1>1
  <2>2. QED  BY <1>1, <1>2, <1>3, <1>4, <2>1, OthersStand
<1>7. ASSUME NEW n \in upstream' PROVE Home(n)'
  <2>1. \A d \in Errands : errand'[d] = IF d = e THEN new ELSE errand[d]
    BY <1>1 DEF EstateInv, EstateShape
  <2>2. CASE n = m  BY <1>2, <2>1, <2>2 DEF Home
  <2>3. CASE n \in upstream
    <3>1. Home(n)  BY <2>3, Homes DEF EstateInv
    <3>2. QED  BY <1>1, <1>2, <2>1, <3>1 DEF Home
  <2>4. QED  BY <1>1, <2>2, <2>3
<1>8. QED  BY <1>4, <1>5, <1>6, <1>7, Homes DEF EstateInv

LEMMA FailsOpening ==
  ASSUME EstateInv, NEW e \in Errands, NEW lost \in SUBSET Machines, OpeningFails(e, lost)
  PROVE  EstateInv'
<1>1. /\ errand' = [errand EXCEPT ![e] = NoErrand] /\ lost \cap ordered = {}
      /\ upstream' = upstream \cup lost /\ ordered' = ordered \cup lost
      /\ stray' = stray \cup errand[e].made \cup lost /\ UNCHANGED <<tenant, row>>
  BY DEF OpeningFails, EndsErrand
<1>2. EstateShape'  BY <1>1, AtRest DEF EstateInv, EstateShape
<1>3. NamesOrdered'
  <2>1. \A s \in Rows : row'[s].machine \in ordered' \cup {NoMachine}
    BY <1>1 DEF EstateInv, NamesOrdered
  <2>2. QED  BY <1>1, <2>1, AtRest, NamesStay
<1>4. ErrandsStand'  BY <1>1, <1>2, AtRest, OthersStand
<1>5. ASSUME NEW n \in upstream' PROVE Home(n)'
  <2>1. \A d \in Errands : d # e => errand'[d] = errand[d]
    BY <1>1 DEF EstateInv, EstateShape
  <2>2. CASE n \in lost  BY <1>1, <2>2 DEF Home
  <2>3. CASE n \in upstream
    <3>1. Home(n)  BY <2>3, Homes DEF EstateInv
    <3>2. QED  BY <1>1, <2>1, <3>1 DEF Home
  <2>4. QED  BY <1>1, <2>2, <2>3
<1>6. QED  BY <1>2, <1>3, <1>4, <1>5, Homes DEF EstateInv

LEMMA CommitsOpening ==
  ASSUME EstateInv, NEW e \in Errands, NEW at \in Seats(errand[e].made), OpeningCommits(e, at)
  PROVE  EstateInv'
<1> DEFINE made == errand[e].made
           Seat(s) == [life |-> "here", owner |-> errand[e].who,
                       machine |-> CHOOSE m \in made : at[m] = s]
<1>1. /\ errand' = [errand EXCEPT ![e] = NoErrand] /\ UNCHANGED <<tenant, upstream, ordered, stray>>
      /\ row' = [s \in Rows |-> IF \E m \in made : at[m] = s THEN Seat(s) ELSE row[s]]
  BY DEF OpeningCommits, EndsErrand
<1>2. /\ at \in [made -> {s \in Rows : row[s].life = "none"}]
      /\ \A m \in made : \A n \in made : at[m] = at[n] => m = n
  BY DEF Seats
<1>3. made \subseteq ordered /\ made \subseteq Machines /\ errand[e].who \in Tenants \cup {"none"}
  BY DEF EstateInv, EstateShape, NamesOrdered, ErrandRow
<1>4. \A m \in made : /\ at[m] \in Rows /\ row[at[m]].life = "none"
                      /\ row'[at[m]].life = "here" /\ row'[at[m]].machine = m
                      /\ row'[at[m]].owner = errand[e].who
  BY <1>1, <1>2
<1>5. \A s \in Rows : row'[s] = row[s] \/ \E m \in made : s = at[m] /\ row'[s] = Seat(s)
  BY <1>1
<1>6. row' \in [Rows -> [life : {"none", "here", "gone"}, owner : Tenants \cup {"none"},
                         machine : Machines \cup {NoMachine}]]
  <2>1. ASSUME NEW s \in Rows
        PROVE  row'[s] \in [life : {"none", "here", "gone"}, owner : Tenants \cup {"none"},
                            machine : Machines \cup {NoMachine}]
    <3>1. CASE row'[s] = row[s]  BY <3>1 DEF EstateInv, EstateShape
    <3>2. ASSUME NEW m \in made, s = at[m], row'[s] = Seat(s)
          PROVE  row'[s] \in [life : {"none", "here", "gone"}, owner : Tenants \cup {"none"},
                              machine : Machines \cup {NoMachine}]
      <4>1. (CHOOSE n \in made : at[n] = s) = m  BY <1>2, <3>2
      <4>2. m \in Machines  BY <1>3
      <4>3. QED  BY <1>3, <3>2, <4>1, <4>2
    <3>3. QED  BY <1>5, <3>1, <3>2
  <2>2. QED  BY <1>1, <2>1
<1>7. EstateShape'  BY <1>1, <1>6, AtRest DEF EstateInv, EstateShape
<1>8. NamesOrdered'
  <2>1. ASSUME NEW s \in Rows PROVE row'[s].machine \in ordered' \cup {NoMachine}
    <3>1. CASE row'[s] = row[s]  BY <1>1, <3>1 DEF EstateInv, NamesOrdered
    <3>2. ASSUME NEW m \in made, s = at[m] PROVE row'[s].machine \in ordered'
      BY <1>1, <1>3, <1>4, <3>2
    <3>3. QED  BY <1>5, <3>1, <3>2
  <2>2. QED  BY <1>1, <2>1, AtRest, NamesStay
<1>9. \A s \in Rows : row[s].life # "none" => row'[s] = row[s]
  <2> HIDE DEF made, Seat
  <2> QED  BY <1>4, <1>5
<1>10. ErrandsStand'  BY <1>1, <1>7, <1>9, AtRest, OthersStand
<1>11. ASSUME NEW n \in upstream' PROVE Home(n)'
  <2>1. \A d \in Errands : d # e => errand'[d] = errand[d]
    BY <1>1 DEF EstateInv, EstateShape
  <2>2. Home(n)  BY <1>1, Homes DEF EstateInv
  <2>3. CASE n \in made  BY <1>4, <2>3 DEF Home
  <2>4. CASE n \notin made
    <3>1. CASE \E s \in Rows : row[s].life = "here" /\ row[s].machine = n
      BY <1>9, <3>1 DEF Home
    <3>2. CASE n \in stray  BY <1>1, <3>2 DEF Home
    <3>3. CASE \E d \in Errands : n \in errand[d].made  BY <2>1, <2>4, <3>3 DEF Home
    <3>4. QED  BY <2>2, <3>1, <3>2, <3>3 DEF Home
  <2>5. QED  BY <2>3, <2>4
<1>12. QED  BY <1>7, <1>8, <1>10, <1>11, Homes DEF EstateInv

\* BindServiceUpstream: the machine that is bound has been seen; the one before strays.
LEMMA ChecksHost ==
  ASSUME EstateInv, NEW e \in Errands, NEW s \in Rows, NEW m \in Machines \cup {NoMachine},
         CheckHost(e, s, m)
  PROVE  EstateInv'
<1> DEFINE new == [NoErrand EXCEPT !.at = "binding", !.row = s, !.machine = m]
<1>1. /\ errand' = [errand EXCEPT ![e] = new] /\ errand[e].at = "idle"
      /\ m \in upstream \cup {NoMachine} /\ UNCHANGED <<tenant, row, upstream, ordered, stray>>
  BY DEF CheckHost
<1>2. new \in ErrandRow /\ new.made = {} /\ new.machine = m /\ new.at = "binding" /\ new.row = s
  <2>1. 0 \in Int  OBVIOUS
  <2>2. QED  BY <2>1 DEF NoErrand, ErrandRow
<1> HIDE DEF new
<1>3. Stands(new)'  BY <1>2 DEF Stands
<1>4. errand[e].made = {} /\ m \in ordered \cup {NoMachine}
  BY <1>1, MadeNothing DEF EstateInv, EstateShape
<1>5. QED  BY <1>1, <1>2, <1>3, <1>4, MovesOn

LEMMA WritesBinding ==
  ASSUME EstateInv, NEW e \in Errands, WriteBinding(e)
  PROVE  EstateInv'
<1> DEFINE m == errand[e].machine
           s == errand[e].row
<1>1. /\ errand[e].at = "binding" /\ errand' = [errand EXCEPT ![e] = NoErrand]
      /\ UNCHANGED <<tenant, upstream, ordered>>
  BY DEF WriteBinding, EndsErrand
<1>2. s \in Rows /\ m \in ordered \cup {NoMachine} /\ m \in Machines \cup {NoMachine}
      /\ errand[e].made = {}
  BY <1>1, MadeNothing DEF EstateInv, EstateShape, ErrandsStand, Stands, NamesOrdered, ErrandRow
<1>3. CASE UNCHANGED <<row, stray>>
  BY <1>1, <1>2, <1>3, AtRest, MovesOn
<1>4. CASE /\ row[s].life = "here" /\ row' = [row EXCEPT ![s].machine = m]
           /\ stray' = (stray \cup ({row[s].machine} \ {NoMachine})) \ {m}
  <2> HIDE DEF m, s
  <2>1. \A r \in Rows : /\ row'[r].life = row[r].life /\ row'[r].owner = row[r].owner
                        /\ row'[r].machine = IF r = s THEN m ELSE row[r].machine
    BY <1>2, <1>4 DEF EstateInv, EstateShape
  <2>2. EstateShape'
    <3>1. row' \in [Rows -> [life : {"none", "here", "gone"}, owner : Tenants \cup {"none"},
                             machine : Machines \cup {NoMachine}]]
      BY <1>2, <1>4 DEF EstateInv, EstateShape
    <3>2. errand' \in [Errands -> ErrandRow]  BY <1>1, AtRest DEF EstateInv, EstateShape
    <3>3. QED  BY <1>1, <3>1, <3>2 DEF EstateInv, EstateShape
  <2>3. NamesOrdered'
    <3>1. \A r \in Rows : row'[r].machine \in ordered' \cup {NoMachine}
      BY <1>1, <1>2, <2>1 DEF EstateInv, NamesOrdered
    <3>2. QED  BY <1>1, <3>1, AtRest, NamesStay
  <2>4. ErrandsStand'  BY <1>1, <2>1, <2>2, AtRest, OthersStand
  <2>5. ASSUME NEW n \in upstream' PROVE Home(n)'
    <3>1. Home(n) /\ n # NoMachine
      BY <1>1, Homes, EstateAssumption DEF EstateInv, EstateShape
    <3>2. \A d \in Errands : n \in errand[d].made => n \in errand'[d].made
      BY <1>1, <1>2 DEF EstateInv, EstateShape
    <3>3. CASE n = m  BY <1>2, <1>4, <2>1, <3>3 DEF Home
    <3>4. CASE n # m
      <4>1. CASE \E r \in Rows : row[r].life = "here" /\ row[r].machine = n
        BY <1>4, <2>1, <3>1, <3>4, <4>1 DEF Home
      <4>2. CASE n \in stray  BY <1>4, <3>4, <4>2 DEF Home
      <4>3. CASE \E d \in Errands : n \in errand[d].made  BY <3>2, <4>3 DEF Home
      <4>4. QED  BY <3>1, <4>1, <4>2, <4>3 DEF Home
    <3>5. QED  BY <3>3, <3>4
  <2>6. QED  BY <2>2, <2>3, <2>4, <2>5, Homes DEF EstateInv
<1>5. QED  BY <1>3, <1>4 DEF WriteBinding

\* DeleteService up to the row: terminated, or refused and left as it is.
LEMMA ReadsService ==
  ASSUME EstateInv, NEW e \in Errands, NEW s \in Rows, ReadService(e, s)
  PROVE  EstateInv'
<1> DEFINE x == errand[e]
<1>1. PICK new : new = [x EXCEPT !.row = s, !.machine = row[s].machine,
                                 !.rest = x.rest \ {s},
                                 !.at = IF row[s].machine = NoMachine THEN "delete" ELSE "terminate"]
  OBVIOUS
<1>2. /\ errand' = [errand EXCEPT ![e] = new] /\ x.at \in {"idle", "batch"}
      /\ UNCHANGED <<tenant, row, upstream, ordered, stray>>
  <2>1. x.at \in {"idle", "batch"} /\ UNCHANGED <<tenant, row, upstream, ordered, stray>>
    BY DEF ReadService
  <2>2. errand' = [errand EXCEPT ![e] = new]  BY <1>1 DEF ReadService
  <2>3. QED  BY <2>1, <2>2
<1>3. x \in ErrandRow /\ Stands(x) /\ row[s].machine \in Machines \cup {NoMachine}
      /\ row[s].machine \in ordered \cup {NoMachine} /\ x.made = {}
  BY <1>2, MadeNothing DEF EstateInv, EstateShape, ErrandsStand, NamesOrdered
<1>4. /\ new \in ErrandRow /\ new.made = {} /\ new.machine = row[s].machine /\ new.row = s
      /\ new.rest = x.rest \ {s} /\ new.listed = x.listed
      /\ new.at \in {"delete", "terminate"} /\ (new.at = "delete" => new.machine = NoMachine)
  BY <1>1, <1>3 DEF ErrandRow
<1>5. NoMachine \notin upstream  BY EstateAssumption DEF EstateInv, EstateShape
<1>6. Stands(new)'
  <2>1. \A r \in x.listed \ x.rest : row[r].life = "gone"  BY <1>2, <1>3 DEF Stands
  <2>2. \A r \in new.listed \ (new.rest \cup {new.row}) : row'[r].life = "gone"
    BY <1>2, <1>4, <2>1
  <2>3. QED  BY <1>2, <1>4, <1>5, <2>2 DEF Stands
<1>7. QED  BY <1>2, <1>3, <1>4, <1>6, MovesOn

LEMMA Terminates ==
  ASSUME EstateInv, NEW e \in Errands, Terminate(e)
  PROVE  EstateInv'
<1> DEFINE x == errand[e]
<1>1. PICK new : new = [x EXCEPT !.at = "delete"]  OBVIOUS
<1>2. x \in ErrandRow /\ Stands(x) /\ x.machine \in ordered \cup {NoMachine}
  BY DEF EstateInv, EstateShape, ErrandsStand, NamesOrdered
<1>3. /\ errand' = [errand EXCEPT ![e] = new] /\ x.at = "terminate"
      /\ upstream' = upstream \ {x.machine} /\ UNCHANGED <<tenant, row, ordered, stray>>
  BY <1>1, <1>2 DEF Terminate, EstateInv, EstateShape
<1>4. /\ new \in ErrandRow /\ new.made = x.made /\ new.machine = x.machine /\ new.row = x.row
      /\ new.rest = x.rest /\ new.listed = x.listed /\ new.at = "delete"
  BY <1>1, <1>2 DEF ErrandRow
<1>5. x.made = {}  BY <1>3, MadeNothing
<1>6. Stands(new)'  BY <1>2, <1>3, <1>4, <1>5 DEF Stands
<1>7. QED  BY <1>2, <1>3, <1>4, <1>5, <1>6, MovesOn

LEMMA Ends ==
  ASSUME EstateInv, NEW e \in Errands,
         (\E gone \in BOOLEAN : TerminateFails(e, gone)) \/ BatchStops(e)
  PROVE  EstateInv'
<1>1. /\ errand' = [errand EXCEPT ![e] = NoErrand] /\ errand[e].at # "opening"
      /\ upstream' \subseteq upstream /\ UNCHANGED <<tenant, row, ordered, stray>>
  BY DEF TerminateFails, AfterRefusal, BatchStops, EndsErrand
<1>2. QED  BY <1>1, AtRest, MadeNothing, MovesOn

\* DeleteService: the row goes; a machine bound in between strays.
LEMMA DeletesRow ==
  ASSUME EstateInv, NEW e \in Errands, DeleteRow(e)
  PROVE  EstateInv'
<1> DEFINE x == errand[e]
           s == x.row
<1>0. x \in ErrandRow /\ Stands(x) /\ x.machine \in ordered \cup {NoMachine}
  BY DEF EstateInv, EstateShape, ErrandsStand, NamesOrdered
<1>1. PICK new : new = IF row[s].life = "here" /\ x.who # "none" THEN [x EXCEPT !.at = "batch"]
                       ELSE NoErrand
  OBVIOUS
<1>2. /\ x.at = "delete" /\ errand' = [errand EXCEPT ![e] = new]
      /\ row' = [row EXCEPT ![s] = [NoRow EXCEPT !.life = "gone"]]
      /\ stray' = stray \cup ({row[s].machine} \ {NoMachine, x.machine})
      /\ UNCHANGED <<tenant, upstream, ordered>>
  BY <1>0, <1>1 DEF DeleteRow, EstateInv, EstateShape
<1>3. s \in Rows /\ x.machine \notin upstream /\ x.made = {}
      /\ \A r \in x.listed \ (x.rest \cup {s}) : row[r].life = "gone"
  BY <1>0, <1>2 DEF Stands
<1>4. row'[s] = [NoRow EXCEPT !.life = "gone"] /\ \A r \in Rows : r # s => row'[r] = row[r]
  BY <1>2, <1>3 DEF EstateInv, EstateShape
<1>5. row'[s].life = "gone" /\ row'[s].machine = NoMachine  BY <1>4 DEF NoRow
<1>6. /\ new \in ErrandRow /\ new.made = {} /\ new.machine \in ordered \cup {NoMachine}
      /\ Stands(new)'
  <2>1. CASE new = NoErrand  BY <2>1, AtRest
  <2>2. CASE new = [x EXCEPT !.at = "batch"]
    <3>1. /\ new \in ErrandRow /\ new.made = {} /\ new.machine = x.machine /\ new.at = "batch"
          /\ new.listed = x.listed /\ new.rest = x.rest
      BY <1>0, <1>3, <2>2 DEF ErrandRow
    <3>2. \A r \in x.listed : r \in Rows  BY <1>0 DEF ErrandRow
    <3>3. \A r \in x.listed \ x.rest : row'[r].life = "gone"  BY <1>3, <1>4, <1>5, <3>2
    <3>4. QED  BY <1>0, <3>1, <3>3 DEF Stands
  <2>3. QED  BY <1>1, <2>1, <2>2
<1>7. EstateShape'
  <2>1. row' \in [Rows -> [life : {"none", "here", "gone"}, owner : Tenants \cup {"none"},
                           machine : Machines \cup {NoMachine}]]
    BY <1>2, <1>3 DEF EstateInv, EstateShape, NoRow
  <2>2. errand' \in [Errands -> ErrandRow]  BY <1>2, <1>6 DEF EstateInv, EstateShape
  <2>3. QED  BY <1>2, <2>1, <2>2 DEF EstateInv, EstateShape
<1>8. NamesOrdered'
  <2>1. \A r \in Rows : row'[r].machine \in ordered' \cup {NoMachine}
    BY <1>2, <1>4, <1>5 DEF EstateInv, NamesOrdered
  <2>2. QED  BY <1>2, <1>6, <2>1, NamesStay
<1>9. ErrandsStand'
  <2>1. \A r \in Rows : row[r].life = "gone" => row'[r].life = "gone"  BY <1>4, <1>5
  <2>2. QED  BY <1>2, <1>6, <1>7, <2>1, OthersStand
<1>10. ASSUME NEW n \in upstream' PROVE Home(n)'
  <2>1. Home(n) /\ n # NoMachine /\ n # x.machine
    BY <1>2, <1>3, Homes, EstateAssumption DEF EstateInv, EstateShape
  <2>2. \A d \in Errands : n \in errand[d].made => n \in errand'[d].made
    BY <1>2, <1>3 DEF EstateInv, EstateShape
  <2>3. CASE \E r \in Rows : row[r].life = "here" /\ row[r].machine = n
    <3>1. PICK r \in Rows : row[r].life = "here" /\ row[r].machine = n  BY <2>3
    <3>2. CASE r = s  BY <1>2, <2>1, <3>1, <3>2 DEF Home
    <3>3. CASE r # s  BY <1>4, <3>1, <3>3 DEF Home
    <3>4. QED  BY <3>2, <3>3
  <2>4. CASE n \in stray  BY <1>2, <2>4 DEF Home
  <2>5. CASE \E d \in Errands : n \in errand[d].made  BY <2>2, <2>5 DEF Home
  <2>6. QED  BY <2>1, <2>3, <2>4, <2>5 DEF Home
<1>11. QED  BY <1>7, <1>8, <1>9, <1>10, Homes DEF EstateInv

\* BatchDeleteUsers and DeleteUser: what was listed is terminated first.
LEMMA BeginsDeleting ==
  ASSUME EstateInv, NEW e \in Errands, NEW u \in Tenants, NEW batch \in BOOLEAN,
         BeginDeleteUser(e, u, batch)
  PROVE  EstateInv'
<1>1. PICK listed : listed = IF batch THEN Backed(u) ELSE {}  OBVIOUS
<1> DEFINE new == [NoErrand EXCEPT !.who = u, !.listed = listed, !.rest = listed,
                                   !.at = IF batch THEN "batch" ELSE "cascade"]
<1>2. /\ errand' = [errand EXCEPT ![e] = new] /\ errand[e].at = "idle"
      /\ UNCHANGED <<tenant, row, upstream, ordered, stray>>
  BY <1>1 DEF BeginDeleteUser
<1>3. listed \subseteq Rows /\ (~batch => listed = {})  BY <1>1 DEF Backed
<1>4. /\ new \in ErrandRow /\ new.made = {} /\ new.machine = NoMachine
      /\ new.listed = listed /\ new.rest = listed /\ new.at \in {"batch", "cascade"}
      /\ (new.at = "cascade" => listed = {})
  <2>1. 0 \in Int  OBVIOUS
  <2>2. QED  BY <1>3, <2>1 DEF NoErrand, ErrandRow
<1> HIDE DEF new
<1>5. Stands(new)'  BY <1>4 DEF Stands
<1>6. QED  BY <1>2, <1>4, <1>5, MadeNothing, MovesOn

LEMMA ReachesUser ==
  ASSUME EstateInv, NEW e \in Errands, BatchReachesUser(e)
  PROVE  EstateInv'
<1> DEFINE x == errand[e]
<1>1. PICK new : new = [x EXCEPT !.at = "cascade"]  OBVIOUS
<1>2. x \in ErrandRow /\ Stands(x) /\ x.machine \in ordered \cup {NoMachine}
  BY DEF EstateInv, EstateShape, ErrandsStand, NamesOrdered
<1>3. /\ errand' = [errand EXCEPT ![e] = new] /\ x.at = "batch" /\ x.rest = {}
      /\ UNCHANGED <<tenant, row, upstream, ordered, stray>>
  BY <1>1, <1>2 DEF BatchReachesUser, EstateInv, EstateShape
<1>4. /\ new \in ErrandRow /\ new.made = x.made /\ new.machine = x.machine
      /\ new.rest = {} /\ new.listed = x.listed /\ new.at = "cascade"
  BY <1>1, <1>2, <1>3 DEF ErrandRow
<1>5. x.made = {}  BY <1>3, MadeNothing
<1>6. Stands(new)'  BY <1>2, <1>3, <1>4, <1>5 DEF Stands
<1>7. QED  BY <1>2, <1>3, <1>4, <1>5, <1>6, MovesOn

\* The rows that go with the account were not listed, or are gone already.
LEMMA Cascades ==
  ASSUME EstateInv, NEW e \in Errands, Cascade(e)
  PROVE  EstateInv'
<1> DEFINE x == errand[e]
           taken == {s \in Rows : row[s].life = "here" /\ row[s].owner = x.who}
<1>0. x \in ErrandRow /\ Stands(x)  BY DEF EstateInv, EstateShape, ErrandsStand
<1>1. /\ x.at = "cascade" /\ errand' = [errand EXCEPT ![e] = NoErrand]
      /\ row' = [s \in Rows |-> IF s \in taken THEN [NoRow EXCEPT !.life = "gone"] ELSE row[s]]
      /\ stray' = stray \cup ({row[s].machine : s \in taken \ x.listed} \ {NoMachine})
      /\ UNCHANGED <<upstream, ordered>>
  BY DEF Cascade, EndsErrand
<1>2. \A s \in x.listed : row[s].life = "gone"  BY <1>0, <1>1 DEF Stands
<1>3. taken \cap x.listed = {} /\ taken \subseteq Rows  BY <1>2
<1>4. x.made = {}  BY <1>1, MadeNothing
<1> HIDE DEF taken
<1>5. \A s \in Rows : IF s \in taken THEN row'[s].life = "gone" /\ row'[s].machine = NoMachine
                                     ELSE row'[s] = row[s]
  BY <1>1 DEF NoRow
<1>6. EstateShape'
  <2>1. row' \in [Rows -> [life : {"none", "here", "gone"}, owner : Tenants \cup {"none"},
                           machine : Machines \cup {NoMachine}]]
    BY <1>1 DEF EstateInv, EstateShape, NoRow
  <2>2. errand' \in [Errands -> ErrandRow]  BY <1>1, AtRest DEF EstateInv, EstateShape
  <2>3. QED  BY <1>1, <2>1, <2>2 DEF EstateInv, EstateShape
<1>7. NamesOrdered'
  <2>1. \A s \in Rows : row'[s].machine \in ordered' \cup {NoMachine}
    BY <1>1, <1>5 DEF EstateInv, NamesOrdered
  <2>2. QED  BY <1>1, <2>1, AtRest, NamesStay
<1>8. ErrandsStand'
  <2>1. \A s \in Rows : row[s].life = "gone" => row'[s].life = "gone"  BY <1>5
  <2>2. QED  BY <1>1, <1>6, <2>1, AtRest, OthersStand
<1>9. ASSUME NEW n \in upstream' PROVE Home(n)'
  <2>1. Home(n) /\ n # NoMachine
    BY <1>1, Homes, EstateAssumption DEF EstateInv, EstateShape
  <2>2. \A d \in Errands : n \in errand[d].made => n \in errand'[d].made
    BY <1>1, <1>4 DEF EstateInv, EstateShape
  <2>3. CASE \E s \in Rows : row[s].life = "here" /\ row[s].machine = n
    <3>1. PICK s \in Rows : row[s].life = "here" /\ row[s].machine = n  BY <2>3
    <3>2. CASE s \in taken
      <4>1. n \in stray'  BY <1>1, <1>3, <2>1, <3>1, <3>2
      <4>2. QED  BY <4>1 DEF Home
    <3>3. CASE s \notin taken  BY <1>5, <3>1, <3>3 DEF Home
    <3>4. QED  BY <3>2, <3>3
  <2>4. CASE n \in stray  BY <1>1, <2>4 DEF Home
  <2>5. CASE \E d \in Errands : n \in errand[d].made  BY <2>2, <2>5 DEF Home
  <2>6. QED  BY <2>1, <2>3, <2>4, <2>5 DEF Home
<1>10. QED  BY <1>6, <1>7, <1>8, <1>9, Homes DEF EstateInv

LEMMA EstateStep == EstateInv /\ [EstateNext]_estateVars => EstateInv'
<1> SUFFICES ASSUME EstateInv, [EstateNext]_estateVars PROVE EstateInv'  OBVIOUS
<1>1. CASE UNCHANGED estateVars
  <2>1. UNCHANGED <<row, upstream, ordered, errand, stray>>  BY <1>1 DEF estateVars
  <2>2. EstateShape' /\ NamesOrdered' /\ ErrandsStand'
    BY <2>1 DEF EstateInv, EstateShape, NamesOrdered, ErrandsStand, Stands
  <2>3. NoMachineLost'  BY <2>1 DEF EstateInv, NoMachineLost, Bound
  <2>4. QED  BY <2>2, <2>3 DEF EstateInv
<1>2. ASSUME NEW e \in Errands, OpeningFails(e, {}) \/ \E m \in Machines : OpeningFails(e, {m})
      PROVE  EstateInv'
  BY <1>2, FailsOpening
<1>3. ASSUME NEW e \in Errands,
             \/ \E u \in Tenants, q \in 1..MaxQuantity : BeginOpening(e, u, q)
             \/ \E m \in Machines : OpenUnit(e, m)
             \/ \E at \in Seats(errand[e].made) : OpeningCommits(e, at)
      PROVE  EstateInv'
  BY <1>3, BeginsOpening, OpensUnit, CommitsOpening
<1>4. ASSUME NEW e \in Errands,
             \/ \E s \in Rows, m \in Machines \cup {NoMachine} : CheckHost(e, s, m)
             \/ WriteBinding(e)
             \/ \E s \in Rows : ReadService(e, s)
             \/ Terminate(e) \/ DeleteRow(e)
             \/ \E gone \in BOOLEAN : TerminateFails(e, gone)
      PROVE  EstateInv'
  BY <1>4, ChecksHost, WritesBinding, ReadsService, Terminates, DeletesRow, Ends
<1>5. ASSUME NEW e \in Errands,
             \/ \E u \in Tenants, batch \in BOOLEAN : BeginDeleteUser(e, u, batch)
             \/ BatchStops(e) \/ BatchReachesUser(e) \/ Cascade(e)
      PROVE  EstateInv'
  BY <1>5, BeginsDeleting, Ends, ReachesUser, Cascades
<1>6. QED  BY <1>1, <1>2, <1>3, <1>4, <1>5 DEF EstateNext

-----------------------------------------------------------------------------
(* The processes of a plugin.                                              *)

InstRow == [known : {"no", "yes", "gone"}, fit : BOOLEAN,
            state : {"stopped", "running", "error", "crashed", "skipped"},
            enabled : BOOLEAN, conn : Int, key : Int, crashes : Int, current : Int]
LoopRow == [at : {"off", "launch", "probe", "publish", "watch", "verdict", "wait"},
            cancelled : BOOLEAN, mine : Int]
AskRow == [at : {"idle", "check", "issue", "start", "stop", "join", "close", "configure", "down"},
           key : Int, conn : Int]
ProcessRow == [is : {"dead", "alive", "left"}, key : Int]

PluginsShape ==
    /\ inst \in InstRow /\ loop \in [Loops -> LoopRow]
    /\ process \in [Processes -> ProcessRow] /\ ask \in [Agents -> AskRow]

AllOff == \A l \in Loops : loop[l].at = "off"

\* While the host starts or stops nobody else asks, and it is down with no loop left;
\* an instance that is not known has neither loops nor requests.
HostStands ==
    /\ ask["host"].at # "idle" => \A a \in Admins : ask[a].at = "idle"
    /\ ask["host"].at \in {"close", "down"} => AllOff
    /\ inst.known = "no" => /\ inst = Unknown /\ AllOff
                            /\ \A a \in Agents : ask[a].at \in {"idle", "down"}

\* A key of an instance that is not enabled is still in force only while the request
\* that stops it is on its way, or the host is down.
KeysEnd ==
    /\ ~inst.enabled /\ active # 0
    /\ inst.key = active \/ \E p \in Processes : process[p].key = active
    => \E a \in Agents : ask[a].at \in {"join", "close", "down"}

PluginsInv == PluginsShape /\ HostStands /\ OneSupervisor /\ KeysEnd
LEMMA PluginsStart == PluginsInit => PluginsInv
<1> SUFFICES ASSUME PluginsInit PROVE PluginsInv  OBVIOUS
<1>1. /\ inst = Unknown /\ loop = [l \in Loops |-> Off] /\ process = [p \in Processes |-> Dead]
      /\ active = 0 /\ ask = [a \in Agents |-> Rest]
  BY DEF PluginsInit
<1>2. PluginsShape
  <2>1. 0 \in Int  OBVIOUS
  <2>2. Unknown \in InstRow /\ Off \in LoopRow /\ Dead \in ProcessRow /\ Rest \in AskRow
    BY <2>1 DEF Unknown, InstRow, Off, LoopRow, Dead, ProcessRow, Rest, AskRow
  <2>3. QED  BY <1>1, <2>2 DEF PluginsShape
<1>3. HostStands  BY <1>1 DEF HostStands, AllOff, Off, Rest, Unknown, Agents
<1>4. OneSupervisor  BY <1>1 DEF OneSupervisor, Off
<1>5. KeysEnd  BY <1>1 DEF KeysEnd
<1>6. QED  BY <1>2, <1>3, <1>4, <1>5 DEF PluginsInv

\* A request moves on, the host's while nobody asks, another's while the host stands.
LEMMA AskMoves ==
  ASSUME PluginsInv, NEW a \in Agents, NEW next \in AskRow,
         ask' = [ask EXCEPT ![a] = next], ask[a].at # "idle" \/ (a \in Admins /\ HostUp),
         a = "host" /\ next.at \in {"close", "down"} => AllOff'
  PROVE  /\ ask' \in [Agents -> AskRow]
         /\ ask'[a] = next /\ \A b \in Agents : b # a => ask'[b] = ask[b]
         /\ ask'["host"].at # "idle" => \A b \in Admins : ask'[b].at = "idle"
         /\ ask'["host"].at \in {"close", "down"} => AllOff'
<1>1. ask \in [Agents -> AskRow] /\ Agents = Admins \cup {"host"} /\ "host" \notin Admins
  BY PluginsAssumption DEF PluginsInv, PluginsShape, Agents
<1>2. /\ ask' \in [Agents -> AskRow]
      /\ ask'[a] = next /\ \A b \in Agents : b # a => ask'[b] = ask[b]
  BY <1>1
<1>3. CASE a = "host"
  <2>1. \A b \in Admins : ask[b].at = "idle" /\ ask'[b] = ask[b]
    BY <1>1, <1>2, <1>3 DEF PluginsInv, HostStands
  <2>2. QED  BY <1>2, <1>3, <2>1
<1>4. CASE a \in Admins
  <2>1. ask["host"].at = "idle" /\ ask'["host"] = ask["host"]
    BY <1>1, <1>2, <1>4 DEF PluginsInv, HostStands, HostUp
  <2>2. QED  BY <1>2, <2>1
<1>5. QED  BY <1>1, <1>3, <1>4

\* A request that is under way is about an instance that is known.
LEMMA Known ==
  ASSUME PluginsInv, NEW a \in Agents, ask[a].at \notin {"idle", "down"}
  PROVE  inst.known # "no"
BY DEF PluginsInv, HostStands

\* A request that touches neither the loops nor what they go by.
LEMMA Asked ==
  ASSUME PluginsInv, NEW a \in Agents, NEW next \in AskRow,
         ask' = [ask EXCEPT ![a] = next], ask[a].at # "idle" \/ (a \in Admins /\ HostUp),
         next.at # "down", next.at = "close" => AllOff,
         inst' \in InstRow, inst'.known # "no", inst'.enabled = inst.enabled,
         inst'.key = inst.key, inst'.current = inst.current,
         UNCHANGED <<loop, process>>, active' = active \/ active' = 0 \/ active' \in Fresh,
         ask[a].at \in {"join", "close", "down"} => active' = 0 \/ next.at = "close"
  PROVE  PluginsInv'
<1>1. AllOff => AllOff'  BY DEF AllOff
<1>2. /\ ask' \in [Agents -> AskRow]
      /\ ask'[a] = next /\ \A b \in Agents : b # a => ask'[b] = ask[b]
      /\ ask'["host"].at # "idle" => \A b \in Admins : ask'[b].at = "idle"
      /\ ask'["host"].at \in {"close", "down"} => AllOff'
  BY <1>1, AskMoves
<1>3. PluginsShape'  BY <1>2 DEF PluginsInv, PluginsShape
<1>4. HostStands'  BY <1>2 DEF HostStands
<1>5. OneSupervisor'  BY DEF PluginsInv, OneSupervisor
<1>6. KeysEnd'
  <2>1. CASE active' = 0  BY <2>1 DEF KeysEnd
  <2>2. CASE active' \in Fresh
    <3>1. active' # inst.key /\ \A p \in Processes : active' # process[p].key
      BY <2>2 DEF Fresh
    <3>2. QED  BY <3>1 DEF KeysEnd
  <2>3. CASE active' = active /\ active # 0
    <3>1. SUFFICES ASSUME ~inst.enabled,
                          inst.key = active \/ \E p \in Processes : process[p].key = active
                   PROVE  \E b \in Agents : ask'[b].at \in {"join", "close", "down"}
      BY <2>3 DEF KeysEnd
    <3>2. PICK b \in Agents : ask[b].at \in {"join", "close", "down"}
      BY <2>3, <3>1 DEF PluginsInv, KeysEnd
    <3>3. CASE b = a  BY <1>2, <2>3, <3>2, <3>3
    <3>4. CASE b # a  BY <1>2, <3>2, <3>4
    <3>5. QED  BY <3>3, <3>4
  <2>4. QED  BY <2>1, <2>2, <2>3
<1>7. QED  BY <1>3, <1>4, <1>5, <1>6 DEF PluginsInv

\* A crash changes nothing of whom the instance belongs to.
LEMMA Errors ==
  ASSUME inst \in InstRow
  PROVE  /\ SetError \in InstRow /\ SetError.known = inst.known /\ SetError.enabled = inst.enabled
         /\ SetError.key = inst.key /\ SetError.current = inst.current
<1>1. PICK n : n = IF inst.crashes < CrashLimit THEN inst.crashes + 1 ELSE inst.crashes  OBVIOUS
<1>2. n \in Int /\ 0 \in Int
  <2>1. inst.crashes \in Int  BY DEF InstRow
  <2>2. QED  BY <1>1, <2>1
<1>3. SetError = [inst EXCEPT !.state = "error", !.conn = 0, !.crashes = n]
  BY <1>1 DEF SetError, InstRow
<1>4. QED  BY <1>2, <1>3 DEF InstRow

\* A row of the requests.
LEMMA AskRows ==
  ASSUME PluginsInv, NEW a \in Agents
  PROVE  /\ ask \in [Agents -> AskRow] /\ ask[a] \in AskRow /\ Rest \in AskRow
         /\ \A to \in {"idle", "check", "issue", "start", "stop", "join", "close", "configure", "down"} :
               [ask[a] EXCEPT !.at = to] \in AskRow /\ [ask[a] EXCEPT !.at = to].at = to
<1>1. 0 \in Int  OBVIOUS
<1>2. Rest \in AskRow  BY <1>1 DEF Rest, AskRow
<1>3. ask \in [Agents -> AskRow] /\ ask[a] \in AskRow  BY DEF PluginsInv, PluginsShape
<1>4. QED  BY <1>2, <1>3 DEF AskRow

\* Goes, in the form of Asked.
LEMMA Going ==
  ASSUME PluginsInv, NEW a \in Agents, NEW from,
         NEW to \in {"idle", "check", "issue", "start", "stop", "join", "close", "configure", "down"},
         Goes(a, from, to)
  PROVE  /\ ask[a].at = from
         /\ \E next \in AskRow : ask' = [ask EXCEPT ![a] = next] /\ next.at = to
<1> DEFINE next == [ask[a] EXCEPT !.at = to]
<1>1. next \in AskRow /\ next.at = to /\ ask \in [Agents -> AskRow]  BY AskRows
<1>2. ask[a].at = from /\ ask' = [ask EXCEPT ![a] = next]  BY <1>1 DEF Goes
<1> HIDE DEF next
<1>3. QED  BY <1>1, <1>2

LEMMA Scanning ==
  ASSUME PluginsInv
  PROVE  /\ Scanned \in InstRow /\ Scanned.enabled = inst.enabled /\ Scanned.key = inst.key
         /\ Scanned.current = inst.current /\ Scanned.known = IF inst.known = "no" THEN "yes" ELSE inst.known
<1>1. inst \in InstRow /\ (inst.known = "no" => inst = Unknown)
  BY DEF PluginsInv, PluginsShape, HostStands
<1>2. CASE inst.known = "no"
  <2>1. PICK fit \in BOOLEAN, st \in {"stopped", "skipped"} :
            Scanned = [inst EXCEPT !.known = "yes", !.fit = fit, !.state = st]
    BY <1>1, <1>2 DEF Scanned
  <2>2. QED  BY <1>1, <1>2, <2>1 DEF InstRow
<1>3. CASE inst.known # "no"
  <2>1. PICK fit \in BOOLEAN, st \in {"stopped", "running", "error", "crashed", "skipped"} :
            Scanned = [inst EXCEPT !.fit = fit, !.state = st]
    <3>1. inst.state \in {"stopped", "running", "error", "crashed", "skipped"}  BY <1>1 DEF InstRow
    <3>2. QED  BY <1>1, <1>3, <3>1 DEF Scanned, InstRow
  <2>2. QED  BY <1>1, <1>3, <2>1 DEF InstRow
<1>4. QED  BY <1>2, <1>3

LEMMA Reloading ==
  ASSUME PluginsInv, NEW a \in Agents, Reload(a)
  PROVE  PluginsInv'
<1>1. /\ a \in Admins /\ HostUp /\ ask[a].at = "idle" /\ inst.known \in {"no", "yes"}
      /\ UNCHANGED <<disk, wish, loop, process, active, mishaps>>
  BY DEF Reload
<1>2. inst \in InstRow /\ ask \in [Agents -> AskRow] /\ ask[a] \in AskRow
  BY AskRows DEF PluginsInv, PluginsShape
<1>3. CASE inst' = [inst EXCEPT !.known = "gone"] /\ Asks(a, [Rest EXCEPT !.at = "stop"])
  <2> DEFINE next == [Rest EXCEPT !.at = "stop"]
  <2>1. 0 \in Int  OBVIOUS
  <2>2. next \in AskRow /\ next.at = "stop"  BY <2>1 DEF Rest, AskRow
  <2>3. ask' = [ask EXCEPT ![a] = next]  BY <1>3 DEF Asks
  <2>4. /\ inst' \in InstRow /\ inst'.known = "gone" /\ inst'.enabled = inst.enabled
        /\ inst'.key = inst.key /\ inst'.current = inst.current
    BY <1>2, <1>3 DEF InstRow
  <2> HIDE DEF next
  <2>5. QED  BY <1>1, <2>2, <2>3, <2>4, Asked
<1>4. CASE inst' = Scanned /\ UNCHANGED ask
  <2>1. ask' = [ask EXCEPT ![a] = ask[a]]  BY <1>2, <1>4
  <2>2. /\ inst' \in InstRow /\ inst'.known # "no" /\ inst'.enabled = inst.enabled
        /\ inst'.key = inst.key /\ inst'.current = inst.current
    BY <1>1, <1>4, Scanning
  <2>3. PICK next \in AskRow : next = ask[a]  BY <1>2
  <2>4. QED  BY <1>1, <2>1, <2>2, <2>3, Asked
<1>5. QED  BY <1>3, <1>4 DEF Reload

\* What is asked for, answered or refused before a process is touched.
LEMMA AskingFor ==
  ASSUME PluginsInv, NEW a \in Agents,
         \/ AskEnable(a) \/ CheckLoadable(a) \/ EnableFails(a) \/ AskDisable(a)
  PROVE  PluginsInv'
<1>1. /\ UNCHANGED <<inst, loop, process>> /\ active' \in {active, 0}
      /\ inst \in InstRow
  BY DEF AskEnable, CheckLoadable, EnableFails, AskDisable, PluginsInv, PluginsShape
<1>2. \E from \in {"idle", "check", "issue"}, to \in {"check", "issue", "idle", "stop"} :
         Goes(a, from, to) /\ (from = "idle" => a \in Admins /\ HostUp /\ inst.known = "yes")
  BY DEF AskEnable, CheckLoadable, EnableFails, AskDisable
<1>3. PICK from \in {"idle", "check", "issue"}, to \in {"check", "issue", "idle", "stop"} :
         Goes(a, from, to) /\ (from = "idle" => a \in Admins /\ HostUp /\ inst.known = "yes")
  BY <1>2
<1>4. PICK next \in AskRow : /\ ask[a].at = from /\ ask' = [ask EXCEPT ![a] = next]
                             /\ next.at = to
  BY <1>3, Going
<1>5. inst.known # "no"  BY <1>3, <1>4, Known
<1>6. QED  BY <1>1, <1>3, <1>4, <1>5, Asked

LEMMA Issuing ==
  ASSUME PluginsInv, NEW a \in Agents, IssueKey(a)
  PROVE  PluginsInv'
<1>1. ask[a].at = "issue" /\ UNCHANGED <<inst, loop, process>> /\ inst \in InstRow
  BY DEF IssueKey, PluginsInv, PluginsShape
<1>2. inst.known # "no"  BY <1>1, Known
<1>3. CASE Goes(a, "issue", "start") /\ UNCHANGED active
  <2>1. PICK next \in AskRow : ask' = [ask EXCEPT ![a] = next] /\ next.at = "start"
    BY <1>3, Going
  <2>2. QED  BY <1>1, <1>2, <1>3, <2>1, Asked
<1>4. ASSUME NEW k \in Fresh, active' = k, Asks(a, [Rest EXCEPT !.at = "start", !.key = k])
      PROVE  PluginsInv'
  <2> DEFINE next == [Rest EXCEPT !.at = "start", !.key = k]
  <2>1. k \in Int /\ 0 \in Int
    <3>1. k \in 1..MaxKeys  BY DEF Fresh
    <3>2. QED  BY <3>1
  <2>2. next \in AskRow /\ next.at = "start"  BY <2>1 DEF Rest, AskRow
  <2>3. ask' = [ask EXCEPT ![a] = next]  BY <1>4 DEF Asks
  <2> HIDE DEF next
  <2>4. active' \in Fresh  BY <1>4
  <2>5. QED  BY <1>1, <1>2, <2>2, <2>3, <2>4, Asked
<1>5. QED  BY <1>3, <1>4 DEF IssueKey

LEMMA Configuring ==
  ASSUME PluginsInv, NEW a \in Agents,
         Reconfigure(a) \/ \E ok \in BOOLEAN : ConfigureAnswered(a, ok)
  PROVE  PluginsInv'
<1>0. inst \in InstRow  BY DEF PluginsInv, PluginsShape
<1>1. CASE Reconfigure(a)
  <2> DEFINE next == [Rest EXCEPT !.at = "configure", !.conn = inst.conn]
  <2>1. inst.conn \in Int /\ 0 \in Int  BY <1>0 DEF InstRow
  <2>2. PICK c \in Int : c = inst.conn  BY <2>1
  <2>3. [Rest EXCEPT !.at = "configure", !.conn = c] \in AskRow
        /\ [Rest EXCEPT !.at = "configure", !.conn = c].at = "configure"
    BY <2>1 DEF Rest, AskRow
  <2>4. /\ ask' = [ask EXCEPT ![a] = [Rest EXCEPT !.at = "configure", !.conn = c]]
        /\ a \in Admins /\ HostUp /\ ask[a].at = "idle" /\ inst.known = "yes"
        /\ UNCHANGED <<inst, loop, process, active>>
    BY <1>1, <2>2 DEF Reconfigure, Asks
  <2>5. PICK new \in AskRow : ask' = [ask EXCEPT ![a] = new] /\ new.at = "configure"
    BY <2>3, <2>4
  <2>6. QED  BY <1>0, <2>4, <2>5, Asked
<1>2. ASSUME NEW ok \in BOOLEAN, ConfigureAnswered(a, ok) PROVE PluginsInv'
  <2>1. /\ ask[a].at = "configure" /\ ask' = [ask EXCEPT ![a] = Rest]
        /\ inst' = inst \/ inst' = SetError
        /\ UNCHANGED <<loop, process, active>>
    BY <1>2 DEF ConfigureAnswered, Asks
  <2>2. inst.known # "no"  BY <2>1, Known
  <2>3. /\ inst' \in InstRow /\ inst'.known = inst.known /\ inst'.enabled = inst.enabled
        /\ inst'.key = inst.key /\ inst'.current = inst.current
    BY <1>0, <2>1, Errors
  <2>4. Rest \in AskRow /\ Rest.at = "idle"  BY AskRows DEF Rest
  <2>5. QED  BY <2>1, <2>2, <2>3, <2>4, Asked
<1>3. QED  BY <1>1, <1>2

-----------------------------------------------------------------------------
\* Handover tells the loop that Stop would end, which is the only one that is not told.
LEMMA HandedOver ==
  ASSUME PluginsInv
  PROVE  /\ Handover \in [Loops -> LoopRow]
         /\ \A l \in Loops : Handover[l].at = loop[l].at
         /\ \A l \in Loops : Handover[l].at # "off" => Handover[l].cancelled
<1>1. loop \in [Loops -> LoopRow] /\ inst \in InstRow /\ OneSupervisor
  BY DEF PluginsInv, PluginsShape
<1>2. CASE inst.current = 0
  <2>1. \A l \in Loops : l # 0
    <3>1. \A l \in 1..MaxLoops : l # 0  OBVIOUS
    <3>2. QED  BY <3>1 DEF Loops
  <2>2. Handover = loop  BY <1>2 DEF Handover
  <2>3. QED  BY <1>1, <1>2, <2>1, <2>2 DEF OneSupervisor, LoopRow
<1>3. CASE inst.current # 0
  <2>1. Handover = [loop EXCEPT ![inst.current].cancelled = TRUE]  BY <1>3 DEF Handover
  <2>2. PICK c : c = inst.current  OBVIOUS
  <2>3. Handover \in [Loops -> LoopRow]  BY <1>1, <2>1, <2>2 DEF LoopRow
  <2>4. \A l \in Loops : /\ Handover[l].at = loop[l].at
                         /\ Handover[l].cancelled = (loop[l].cancelled \/ l = c)
    BY <1>1, <2>1, <2>2 DEF LoopRow
  <2>5. QED  BY <1>1, <2>2, <2>3, <2>4 DEF OneSupervisor
<1>4. QED  BY <1>2, <1>3

LEMMA Starts ==
  ASSUME PluginsInv, NEW a \in Agents, Start(a)
  PROVE  PluginsInv'
<1>0. Goes(a, "start", "idle")  BY DEF Start
<1>1. PICK next \in AskRow : ask[a].at = "start" /\ ask' = [ask EXCEPT ![a] = next] /\ next.at = "idle"
  BY <1>0, Going
<1>2. inst.known # "no" /\ inst \in InstRow /\ UNCHANGED <<process, active>>
  BY <1>1, Known DEF Start, PluginsInv, PluginsShape
<1>3. CASE UNCHANGED <<inst, loop>>  BY <1>1, <1>2, <1>3, Asked
<1>4. ASSUME NEW l \in Loops, loop[l].at = "off",
             loop' = [Handover EXCEPT ![l] = [Off EXCEPT !.at = "launch"]],
             inst' = [inst EXCEPT !.enabled = TRUE, !.key = ask[a].key, !.crashes = 0, !.current = l]
      PROVE  PluginsInv'
  <2>1. 0 \in Int /\ l \in Int /\ ask[a].key \in Int
    <3>1. ask[a].key \in Int  BY AskRows DEF AskRow
    <3>2. l \in 1..MaxLoops  BY DEF Loops
    <3>3. QED  BY <3>1, <3>2
  <2>2. inst' \in InstRow /\ inst'.known = inst.known /\ inst'.enabled /\ inst'.current = l
    BY <1>2, <1>4, <2>1 DEF InstRow
  <2>3. [Off EXCEPT !.at = "launch"] \in LoopRow  BY <2>1 DEF Off, LoopRow
  <2>4. loop' \in [Loops -> LoopRow] /\ \A k \in Loops : k # l => loop'[k] = Handover[k]
    BY <1>4, <2>3, HandedOver
  <2>5. /\ ask' \in [Agents -> AskRow]
        /\ ask'["host"].at # "idle" => \A b \in Admins : ask'[b].at = "idle"
        /\ ask'["host"].at \in {"close", "down"} => AllOff'
    BY <1>1, AskMoves
  <2>6. PluginsShape'  BY <1>2, <2>2, <2>4, <2>5 DEF PluginsInv, PluginsShape
  <2>7. HostStands'  BY <1>2, <2>2, <2>5 DEF HostStands
  <2>8. OneSupervisor'  BY <2>2, <2>4, HandedOver DEF OneSupervisor
  <2>9. KeysEnd'  BY <2>2 DEF KeysEnd
  <2>10. QED  BY <2>6, <2>7, <2>8, <2>9 DEF PluginsInv
<1>5. QED  BY <1>3, <1>4 DEF Start

\* Stop: the loop is told, waited for, and the process ended with its key.
LEMMA Stops ==
  ASSUME PluginsInv, NEW a \in Agents, CancelLoop(a)
  PROVE  PluginsInv'
<1>1. PICK next \in AskRow : ask[a].at = "stop" /\ ask' = [ask EXCEPT ![a] = next] /\ next.at = "join"
  BY Going DEF CancelLoop
<1>2. /\ inst.known # "no" /\ inst \in InstRow /\ UNCHANGED <<process, active>> /\ loop' = Handover
      /\ inst' = [inst EXCEPT !.enabled = FALSE, !.current = 0]
  BY <1>1, Known DEF CancelLoop, PluginsInv, PluginsShape
<1>3. 0 \in Int  OBVIOUS
<1>4. inst' \in InstRow /\ inst'.known = inst.known  BY <1>2, <1>3 DEF InstRow
<1>5. /\ ask' \in [Agents -> AskRow] /\ ask'[a] = next
      /\ ask'["host"].at # "idle" => \A b \in Admins : ask'[b].at = "idle"
      /\ ask'["host"].at \in {"close", "down"} => AllOff'
  BY <1>1, AskMoves
<1>6. PluginsShape'  BY <1>2, <1>4, <1>5, HandedOver DEF PluginsInv, PluginsShape
<1>7. HostStands'  BY <1>2, <1>4, <1>5 DEF HostStands
<1>8. OneSupervisor'  BY <1>2, HandedOver DEF OneSupervisor
<1>9. KeysEnd'  BY <1>1, <1>5 DEF KeysEnd
<1>10. QED  BY <1>6, <1>7, <1>8, <1>9 DEF PluginsInv

LEMMA Joins ==
  ASSUME PluginsInv, NEW a \in Agents, JoinLoops(a)
  PROVE  PluginsInv'
<1>0. inst \in InstRow  BY DEF PluginsInv, PluginsShape
<1>1. PICK c \in Int : c = inst.conn  BY <1>0 DEF InstRow
<1> DEFINE next == [Rest EXCEPT !.at = "close", !.conn = c]
<1>2. 0 \in Int  OBVIOUS
<1>3. next \in AskRow /\ next.at = "close"  BY <1>2 DEF Rest, AskRow
<1>4. /\ ask[a].at = "join" /\ ask' = [ask EXCEPT ![a] = next] /\ AllOff
      /\ UNCHANGED <<loop, process, active>>
  BY <1>1 DEF JoinLoops, Asks, AllOff
<1> HIDE DEF next
<1>5. inst.known # "no"  BY <1>4, Known
<1>6. /\ inst' \in InstRow /\ inst'.known = inst.known /\ inst'.enabled = inst.enabled
      /\ inst'.key = inst.key /\ inst'.current = inst.current
  <2>1. inst' = [inst EXCEPT !.conn = 0, !.state = IF @ = "skipped" THEN @ ELSE "stopped"]
    BY DEF JoinLoops
  <2>2. QED  BY <1>0, <1>2, <2>1 DEF InstRow
<1>7. QED  BY <1>3, <1>4, <1>5, <1>6, Asked

\* Killing leaves rows of processes, and no key that was not there.
LEMMA Killing ==
  ASSUME PluginsInv, NEW p
  PROVE  /\ KilledIf(p) \in [Processes -> ProcessRow] /\ Killed(p) \in [Processes -> ProcessRow]
         /\ \A q \in Processes : KilledIf(p)[q].key \in {process[q].key, 0}
                                 /\ Killed(p)[q].key \in {process[q].key, 0}
<1>1. process \in [Processes -> ProcessRow]  BY DEF PluginsInv, PluginsShape
<1>2. 0 \in Int  OBVIOUS
<1>3. Dead \in ProcessRow /\ Dead.key = 0  BY <1>2 DEF Dead, ProcessRow
<1>4. Killed(p) = [process EXCEPT ![p] = Dead]  BY DEF Killed
<1>5. KilledIf(p) \in {process, Killed(p)}  BY DEF KilledIf
<1>6. Killed(p) \in [Processes -> ProcessRow]
      /\ \A q \in Processes : Killed(p)[q].key \in {process[q].key, 0}
  BY <1>1, <1>3, <1>4
<1>7. QED  BY <1>1, <1>5, <1>6

LEMMA Closes ==
  ASSUME PluginsInv, NEW a \in Agents, CloseProcess(a)
  PROVE  PluginsInv'
<1>1. PICK to \in {"down", "idle"} : to = IF a = "host" THEN "down" ELSE "idle"  OBVIOUS
<1> DEFINE next == [Rest EXCEPT !.at = to]
<1>2. 0 \in Int  OBVIOUS
<1>3. next \in AskRow /\ next.at = to  BY <1>2 DEF Rest, AskRow
<1>4. /\ ask[a].at = "close" /\ ask' = [ask EXCEPT ![a] = next]
      /\ process' = KilledIf(ask[a].conn) /\ active' = 0
      /\ UNCHANGED <<inst, loop>>
  BY <1>1 DEF CloseProcess, Asks, KeyRevoked
<1> HIDE DEF next
<1>5. inst.known # "no"  BY <1>4, Known
<1>6. a = "host" => AllOff'  BY <1>4 DEF PluginsInv, HostStands, AllOff
<1>7. /\ ask' \in [Agents -> AskRow]
      /\ ask'["host"].at # "idle" => \A b \in Admins : ask'[b].at = "idle"
      /\ ask'["host"].at \in {"close", "down"} => AllOff'
  BY <1>3, <1>4, <1>6, AskMoves
<1>8. PluginsShape'
  <2>1. PICK p : p = ask[a].conn  OBVIOUS
  <2>2. process' \in [Processes -> ProcessRow]  BY <1>4, <2>1, Killing
  <2>3. QED  BY <1>4, <1>7, <2>2 DEF PluginsInv, PluginsShape
<1>9. HostStands'  BY <1>4, <1>5, <1>7 DEF HostStands
<1>10. OneSupervisor'  BY <1>4 DEF PluginsInv, OneSupervisor
<1>11. KeysEnd'  BY <1>4 DEF KeysEnd
<1>12. QED  BY <1>8, <1>9, <1>10, <1>11 DEF PluginsInv

-----------------------------------------------------------------------------
\* A loop at work: it ends or goes on, told or not, and starts at most one process.
LEMMA Works ==
  ASSUME PluginsInv, NEW l \in Loops, loop[l].at # "off", NEW new \in LoopRow,
         loop' = [loop EXCEPT ![l] = new], new.at # "off" => new.cancelled = loop[l].cancelled,
         inst' \in InstRow, inst'.known = inst.known, inst'.enabled = inst.enabled,
         inst'.key = inst.key, inst'.current = inst.current,
         process' \in [Processes -> ProcessRow],
         \A p \in Processes : process'[p].key \in {process[p].key, inst.key, 0},
         UNCHANGED <<ask, active>>
  PROVE  PluginsInv'
<1>1. ~AllOff  BY DEF AllOff
<1>2. inst.known # "no" /\ ask["host"].at \notin {"close", "down"}
  BY <1>1 DEF PluginsInv, HostStands
<1>3. loop' \in [Loops -> LoopRow] /\ loop'[l] = new /\ \A k \in Loops : k # l => loop'[k] = loop[k]
  BY DEF PluginsInv, PluginsShape
<1>4. PluginsShape'  BY <1>3 DEF PluginsInv, PluginsShape
<1>5. HostStands'  BY <1>2 DEF PluginsInv, HostStands
<1>6. OneSupervisor'
  <2> SUFFICES ASSUME NEW k \in Loops, loop'[k].at # "off", ~loop'[k].cancelled
               PROVE  inst'.current = k
    BY DEF OneSupervisor
  <2>1. loop[k].at # "off" /\ ~loop[k].cancelled
    <3>1. CASE k = l  BY <1>3, <3>1
    <3>2. CASE k # l  BY <1>3, <3>2
    <3>3. QED  BY <3>1, <3>2
  <2>2. QED  BY <2>1 DEF PluginsInv, OneSupervisor
<1>7. KeysEnd'
  <2> SUFFICES ASSUME ~inst'.enabled, active' # 0,
                      inst'.key = active' \/ \E p \in Processes : process'[p].key = active'
               PROVE  \E b \in Agents : ask'[b].at \in {"join", "close", "down"}
    BY DEF KeysEnd
  <2>1. inst.key = active \/ \E p \in Processes : process[p].key = active  OBVIOUS
  <2>2. QED  BY <2>1 DEF PluginsInv, KeysEnd
<1>8. QED  BY <1>4, <1>5, <1>6, <1>7 DEF PluginsInv

\* A loop that is off, and one that is not.
LEMMA LoopRows ==
  ASSUME PluginsInv, NEW l \in Loops
  PROVE  /\ loop \in [Loops -> LoopRow] /\ loop[l] \in LoopRow
         /\ Off \in LoopRow /\ Off.at = "off"
         /\ \A at \in {"off", "launch", "probe", "publish", "watch", "verdict", "wait"} :
            \A mine \in Int :
               /\ [loop[l] EXCEPT !.at = at, !.mine = mine] \in LoopRow
               /\ [loop[l] EXCEPT !.at = at, !.mine = mine].cancelled = loop[l].cancelled
               /\ [loop[l] EXCEPT !.at = at] \in LoopRow
               /\ [loop[l] EXCEPT !.at = at].cancelled = loop[l].cancelled
<1>1. loop \in [Loops -> LoopRow] /\ loop[l] \in LoopRow  BY DEF PluginsInv, PluginsShape
<1>2. 0 \in Int  OBVIOUS
<1>3. Off \in LoopRow /\ Off.at = "off"  BY <1>2 DEF Off, LoopRow
<1>4. QED  BY <1>1, <1>3 DEF LoopRow

LEMMA Launches ==
  ASSUME PluginsInv, NEW l \in Loops, Launch(l)
  PROVE  PluginsInv'
<1>1. PICK p \in Processes :
         /\ process' = [process EXCEPT ![p] = [is |-> "alive", key |-> inst.key]]
         /\ loop' = [loop EXCEPT ![l].at = "probe", ![l].mine = p]
  BY DEF Launch
<1>2. loop[l].at = "launch" /\ UNCHANGED <<inst, ask, active>>  BY DEF Launch
<1>3. p \in Int
  <2>1. p \in 1..MaxAlive  BY DEF Processes
  <2>2. QED  BY <2>1
<1>4. inst \in InstRow /\ inst.key \in Int /\ process \in [Processes -> ProcessRow]
  BY DEF PluginsInv, PluginsShape, InstRow
<1>5. PICK new \in LoopRow : new = [loop[l] EXCEPT !.at = "probe", !.mine = p]
  BY <1>3, LoopRows
<1>6. loop' = [loop EXCEPT ![l] = new] /\ new.cancelled = loop[l].cancelled
  BY <1>1, <1>3, <1>5, LoopRows
<1>7. PICK started \in ProcessRow : started = [is |-> "alive", key |-> inst.key]
  BY <1>4 DEF ProcessRow
<1>8. process' \in [Processes -> ProcessRow] /\ started.key = inst.key
      /\ \A q \in Processes : process'[q] = IF q = p THEN started ELSE process[q]
  BY <1>1, <1>4, <1>7
<1>9. QED  BY <1>2, <1>4, <1>6, <1>8, Works

\* AttemptFails and HealthFails: an error, and the process is ended.
LEMMA Breaks ==
  ASSUME PluginsInv, NEW l \in Loops, AttemptFails(l) \/ HealthFails(l)
  PROVE  PluginsInv'
<1>1. loop[l].at # "off" /\ UNCHANGED <<ask, active>>  BY DEF AttemptFails, HealthFails
<1>2. inst \in InstRow  BY DEF PluginsInv, PluginsShape
<1>3. \E p : process' = KilledIf(p) \/ process' = Killed(p)  BY DEF AttemptFails, HealthFails
<1>4. process' \in [Processes -> ProcessRow]
      /\ \A q \in Processes : process'[q].key \in {process[q].key, 0}
  BY <1>3, Killing
<1>5. inst' = inst \/ inst' = SetError  BY DEF AttemptFails, HealthFails
<1>6. /\ inst' \in InstRow /\ inst'.known = inst.known /\ inst'.enabled = inst.enabled
      /\ inst'.key = inst.key /\ inst'.current = inst.current
  BY <1>2, <1>5, Errors
<1>7. \E new \in LoopRow : /\ loop' = [loop EXCEPT ![l] = new]
                           /\ new.at # "off" => new.cancelled = loop[l].cancelled
  <2>1. \/ loop' = [loop EXCEPT ![l] = Off]
        \/ loop' = [loop EXCEPT ![l].at = "verdict", ![l].mine = 0]
        \/ loop' = [loop EXCEPT ![l].at = "verdict"]
    BY DEF AttemptFails, HealthFails, Leave, Enters
  <2>2. 0 \in Int  OBVIOUS
  <2>3. CASE loop' = [loop EXCEPT ![l] = Off]  BY <2>3, LoopRows
  <2>4. CASE loop' = [loop EXCEPT ![l].at = "verdict", ![l].mine = 0]
    <3>1. loop' = [loop EXCEPT ![l] = [loop[l] EXCEPT !.at = "verdict", !.mine = 0]]
      BY <2>4, LoopRows
    <3>2. QED  BY <2>2, <3>1, LoopRows
  <2>5. CASE loop' = [loop EXCEPT ![l].at = "verdict"]
    <3>1. loop' = [loop EXCEPT ![l] = [loop[l] EXCEPT !.at = "verdict"]]
      BY <2>5, LoopRows
    <3>2. QED  BY <2>2, <3>1, LoopRows
  <2>6. QED  BY <2>1, <2>3, <2>4, <2>5
<1>8. QED  BY <1>1, <1>4, <1>6, <1>7, Works

\* Probed, Publish, WatchEnds, Verdict, BackOffEnds: no process starts or ends.
LEMMA GoesOn ==
  ASSUME PluginsInv, NEW l \in Loops,
         Probed(l) \/ Publish(l) \/ WatchEnds(l) \/ Verdict(l) \/ BackOffEnds(l)
  PROVE  PluginsInv'
<1>1. loop[l].at # "off" /\ UNCHANGED <<process, ask, active>>
  BY DEF Probed, Publish, WatchEnds, Verdict, BackOffEnds
<1>2. /\ inst \in InstRow /\ process \in [Processes -> ProcessRow]
      /\ loop[l].mine \in Int
  <2>1. inst \in InstRow /\ process \in [Processes -> ProcessRow]  BY DEF PluginsInv, PluginsShape
  <2>2. loop[l] \in LoopRow  BY DEF PluginsInv, PluginsShape
  <2>3. loop[l].mine \in Int  BY <2>2 DEF LoopRow
  <2>4. QED  BY <2>1, <2>3
<1>3. \/ inst' = inst \/ inst' = [inst EXCEPT !.state = "crashed"]
      \/ inst' = [inst EXCEPT !.state = "running", !.conn = loop[l].mine]
  BY DEF Probed, Publish, WatchEnds, Verdict, BackOffEnds
<1>4. /\ inst' \in InstRow /\ inst'.known = inst.known /\ inst'.enabled = inst.enabled
      /\ inst'.key = inst.key /\ inst'.current = inst.current
  BY <1>2, <1>3 DEF InstRow
<1>5. \E new \in LoopRow : /\ loop' = [loop EXCEPT ![l] = new]
                           /\ new.at # "off" => new.cancelled = loop[l].cancelled
  <2>1. \/ loop' = [loop EXCEPT ![l] = Off]
        \/ loop' = [loop EXCEPT ![l].at = "watch", ![l].mine = 0]
        \/ \E at \in {"publish", "verdict", "wait", "launch"} : loop' = [loop EXCEPT ![l].at = at]
    BY DEF Probed, Publish, WatchEnds, Verdict, BackOffEnds, Leave, Enters
  <2>2. 0 \in Int  OBVIOUS
  <2>3. CASE loop' = [loop EXCEPT ![l] = Off]  BY <2>3, LoopRows
  <2>4. CASE loop' = [loop EXCEPT ![l].at = "watch", ![l].mine = 0]
    <3>1. loop' = [loop EXCEPT ![l] = [loop[l] EXCEPT !.at = "watch", !.mine = 0]]
      BY <2>4, LoopRows
    <3>2. QED  BY <2>2, <3>1, LoopRows
  <2>5. ASSUME NEW at \in {"publish", "verdict", "wait", "launch"}, loop' = [loop EXCEPT ![l].at = at]
        PROVE  \E new \in LoopRow : /\ loop' = [loop EXCEPT ![l] = new]
                                    /\ new.at # "off" => new.cancelled = loop[l].cancelled
    <3>1. loop' = [loop EXCEPT ![l] = [loop[l] EXCEPT !.at = at]]
      BY <2>5, LoopRows
    <3>2. QED  BY <2>2, <3>1, LoopRows
  <2>6. QED  BY <2>1, <2>3, <2>4, <2>5
<1>6. QED  BY <1>1, <1>2, <1>4, <1>5, Works

\* What happens to a process, a crash count or the files.
LEMMA Happens ==
  ASSUME PluginsInv,
         \/ Install \/ \E d \in {"none", "unfit", "fit"} : Tamper(d)
         \/ \E granted \in BOOLEAN : SetScopes(granted)
         \/ ForgetCrashes \/ \E p \in Processes : ProcessExits(p)
  PROVE  PluginsInv'
<1>0. inst \in InstRow /\ process \in [Processes -> ProcessRow]  BY DEF PluginsInv, PluginsShape
<1>1. UNCHANGED <<loop, ask, active>>
  BY DEF Install, Tamper, SetScopes, ForgetCrashes, ProcessExits
<1>2. inst' = inst \/ (inst.crashes > 0 /\ inst' = [inst EXCEPT !.crashes = 0])
  BY DEF Install, Tamper, SetScopes, ForgetCrashes, ProcessExits
<1>3. inst.known = "no" => inst' = inst
  <2>1. SUFFICES ASSUME inst = Unknown PROVE ~(inst.crashes > 0)
    BY <1>2 DEF PluginsInv, HostStands
  <2>2. inst.crashes = 0  BY <2>1 DEF Unknown
  <2>3. QED  BY <2>2
<1>4. /\ inst' \in InstRow /\ inst'.known = inst.known /\ inst'.enabled = inst.enabled
      /\ inst'.key = inst.key /\ inst'.current = inst.current
  <2>1. 0 \in Int  OBVIOUS
  <2>2. QED  BY <1>0, <1>2, <2>1 DEF InstRow
<1>5. \/ process' = process
      \/ \E p \in Processes : process' = Killed(p)
  BY DEF Install, Tamper, SetScopes, ForgetCrashes, ProcessExits
<1>6. process' \in [Processes -> ProcessRow]
      /\ \A q \in Processes : process'[q].key \in {process[q].key, 0}
  BY <1>0, <1>5, Killing
<1>7. PluginsShape'  BY <1>1, <1>4, <1>6 DEF PluginsInv, PluginsShape
<1>8. HostStands'  BY <1>1, <1>3, <1>4 DEF PluginsInv, HostStands, AllOff
<1>9. OneSupervisor'  BY <1>1, <1>4 DEF PluginsInv, OneSupervisor
<1>10. KeysEnd'
  <2> SUFFICES ASSUME ~inst'.enabled, active' # 0,
                      inst'.key = active' \/ \E p \in Processes : process'[p].key = active'
               PROVE  \E b \in Agents : ask'[b].at \in {"join", "close", "down"}
    BY DEF KeysEnd
  <2>1. inst.key = active \/ \E p \in Processes : process[p].key = active  BY <1>1, <1>4, <1>6
  <2>2. QED  BY <1>1, <1>4, <2>1 DEF PluginsInv, KeysEnd
<1>11. QED  BY <1>7, <1>8, <1>9, <1>10 DEF PluginsInv

\* The host ends in order, is killed, and starts again.
LEMMA ShutsDown == ASSUME PluginsInv, Shutdown PROVE PluginsInv'
<1>0. "host" \in Agents /\ inst \in InstRow  BY DEF Agents, PluginsInv, PluginsShape
<1>1. /\ Goes("host", "idle", "stop")
      /\ inst.known = "yes"
      /\ \A a \in Admins : ask[a].at = "idle"
      /\ UNCHANGED <<inst, loop, process, active>>
  BY DEF Shutdown
<1>2. PICK next \in AskRow : ask["host"].at = "idle" /\ ask' = [ask EXCEPT !["host"] = next] /\ next.at = "stop"
  BY <1>0, <1>1, Going
<1>3. ask' \in [Agents -> AskRow] /\ ask'["host"] = next
      /\ \A b \in Agents : b # "host" => ask'[b] = ask[b]
  BY <1>0, <1>2 DEF PluginsInv, PluginsShape
<1>4. PluginsShape'  BY <1>1, <1>3 DEF PluginsInv, PluginsShape
<1>5. HostStands'  BY <1>1, <1>2, <1>3, PluginsAssumption DEF HostStands, Agents
<1>6. OneSupervisor'  BY <1>1 DEF PluginsInv, OneSupervisor
<1>7. KeysEnd'
  <2> SUFFICES ASSUME ~inst.enabled, active # 0,
                      inst.key = active \/ \E p \in Processes : process[p].key = active
               PROVE  \E b \in Agents : ask'[b].at \in {"join", "close", "down"}
    BY <1>1 DEF KeysEnd
  <2>1. PICK b \in Agents : ask[b].at \in {"join", "close", "down"}  BY DEF PluginsInv, KeysEnd
  <2>2. QED  BY <1>2, <1>3, <2>1
<1>8. QED  BY <1>4, <1>5, <1>6, <1>7 DEF PluginsInv

LEMMA Dies == ASSUME PluginsInv, HostDies PROVE PluginsInv'
<1>0. 0 \in Int  OBVIOUS
<1>1. /\ ask' = [a \in Agents |-> IF a = "host" THEN [Rest EXCEPT !.at = "down"] ELSE Rest]
      /\ inst' = Unknown /\ loop' = [l \in Loops |-> Off]
      /\ process' = [p \in Processes |-> IF process[p] = Dead THEN Dead
                                         ELSE [process[p] EXCEPT !.is = "left"]]
  BY DEF HostDies
<1>2. inst' \in InstRow /\ Off \in LoopRow /\ Dead \in ProcessRow
      /\ Rest \in AskRow /\ [Rest EXCEPT !.at = "down"] \in AskRow
  BY <1>0, <1>1 DEF Unknown, InstRow, Off, LoopRow, Dead, ProcessRow, Rest, AskRow
<1>3. process' \in [Processes -> ProcessRow]
  <2>1. \A p \in Processes : [process[p] EXCEPT !.is = "left"] \in ProcessRow
    BY DEF PluginsInv, PluginsShape, ProcessRow
  <2>2. QED  BY <1>1, <1>2, <2>1
<1>4. PluginsShape'  BY <1>1, <1>2, <1>3 DEF PluginsShape
<1>5. "host" \in Agents /\ ask'["host"].at = "down" /\ \A a \in Admins : ask'[a].at = "idle"
  BY <1>1, PluginsAssumption DEF Agents, Rest
<1>6. AllOff'  BY <1>1 DEF AllOff, Off
<1>7. HostStands'  BY <1>1, <1>5, <1>6 DEF HostStands, Agents
<1>8. OneSupervisor'  BY <1>6 DEF OneSupervisor, AllOff
<1>9. KeysEnd'  BY <1>5 DEF KeysEnd
<1>10. QED  BY <1>4, <1>7, <1>8, <1>9 DEF PluginsInv

LEMMA StartsAgain == ASSUME PluginsInv, HostStarts PROVE PluginsInv'
<1>0. 0 \in Int /\ "host" \in Agents  BY DEF Agents
<1>1. /\ ask["host"].at = "down" /\ active' = 0 /\ UNCHANGED <<loop, process>>
      /\ AllOff
      /\ \A a \in Admins : ask[a].at = "idle"
  BY DEF HostStarts, PluginsInv, HostStands
<1>2. /\ inst' \in InstRow
      /\ inst'.known = "no" => inst' = Unknown
      /\ disk # "none" => inst'.known = "yes"
  <2>1. CASE disk = "none"
    <3>1. inst' = Unknown  BY <2>1 DEF HostStarts
    <3>2. QED  BY <1>0, <2>1, <3>1 DEF Unknown, InstRow
  <2>2. CASE disk # "none"
    <3>1. PICK fit \in BOOLEAN, st \in {"stopped", "skipped"} :
              inst' = [Unknown EXCEPT !.known = "yes", !.fit = fit, !.state = st]
      BY <2>2 DEF HostStarts
    <3>2. QED  BY <1>0, <2>2, <3>1 DEF Unknown, InstRow
  <2>3. QED  BY <2>1, <2>2
<1>3. PICK next \in AskRow : /\ ask' = [ask EXCEPT !["host"] = next]
                             /\ next.at = "idle" \/ (next.at = "check" /\ disk # "none")
  <2>1. Rest \in AskRow /\ [Rest EXCEPT !.at = "check"] \in AskRow
        /\ Rest.at = "idle" /\ [Rest EXCEPT !.at = "check"].at = "check"
    BY <1>0 DEF Rest, AskRow
  <2>2. QED  BY <2>1 DEF HostStarts, Asks
<1>4. ask' \in [Agents -> AskRow] /\ ask'["host"] = next
      /\ \A b \in Agents : b # "host" => ask'[b] = ask[b]
  BY <1>0, <1>3 DEF PluginsInv, PluginsShape
<1>5. PluginsShape'  BY <1>1, <1>2, <1>4 DEF PluginsInv, PluginsShape
<1>6. AllOff'  BY <1>1 DEF AllOff
<1>7. HostStands'  BY <1>1, <1>2, <1>3, <1>4, <1>6, PluginsAssumption DEF HostStands, Agents
<1>8. OneSupervisor'  BY <1>6 DEF OneSupervisor, AllOff
<1>9. KeysEnd'  BY <1>1 DEF KeysEnd
<1>10. QED  BY <1>5, <1>7, <1>8, <1>9 DEF PluginsInv

LEMMA PluginsStep == PluginsInv /\ [PluginsNext]_pluginVars => PluginsInv'
<1> SUFFICES ASSUME PluginsInv, [PluginsNext]_pluginVars PROVE PluginsInv'  OBVIOUS
<1>1. CASE UNCHANGED pluginVars
  BY <1>1 DEF pluginVars, PluginsInv, PluginsShape, HostStands, AllOff, OneSupervisor, KeysEnd
<1>2. ASSUME NEW a \in Agents, Administer(a) PROVE PluginsInv'
  BY <1>2, Reloading, AskingFor, Issuing, Starts, Stops, Joins, Closes, Configuring DEF Administer
<1>3. ASSUME NEW l \in Loops, Supervise(l) PROVE PluginsInv'
  BY <1>3, Launches, Breaks, GoesOn DEF Supervise
<1>4. QED  BY <1>1, <1>2, <1>3, Happens, ShutsDown, Dies, StartsAgain DEF PluginsNext

LEMMA Muted == PluginsInv => OneSupervisor /\ EscapedIsMute
<1> SUFFICES ASSUME PluginsInv, Quiet, NEW p \in Processes
             PROVE  process[p].key = 0 \/ process[p].key # active
  BY DEF PluginsInv, EscapedIsMute
<1>1. ~inst.enabled /\ \A a \in Agents : ask[a].at = "idle"  BY DEF Quiet
<1>2. QED  BY <1>1 DEF PluginsInv, KeysEnd

-----------------------------------------------------------------------------
(* Mails and the end of the process.                                       *)

\* Once main is past the draining, a request it did not wait for is the only one left.
RequestsWaitedFor == phase \notin {"serving", "draining"} /\ ~hasty => Awaited = {}

\* The web's worker sends one notice at a time, and none once it was waited for.
WorkerWaitedFor ==
    /\ \A m \in WebNotices : post[m] = "sending" => postman["web"] = "sending"
    /\ \A m \in WebNotices : \A k \in WebNotices :
          post[m] = "sending" /\ post[k] = "sending" => m = k
    /\ phase \in {"stopping", "exited"} /\ ~hasty => postman["web"] \in {"none", "gone"}

NotifyInv == NotifyTypeOK /\ RequestsWaitedFor /\ WorkerWaitedFor /\ QueueBeforeHost

LEMMA NotifyStart == NotifyInit => NotifyInv
<1> SUFFICES ASSUME NotifyInit PROVE NotifyInv  OBVIOUS
<1>1. post \in [Posts -> {"new"}] /\ \A m \in WebNotices : post[m] = "new"
  BY DEF NotifyInit, Posts
<1>2. outbox \in [Notifiers -> Seq(Posts)] /\ \A n \in Notifiers :
          outbox[n] \in Seq(NoticesOf[n]) /\ Len(outbox[n]) <= QueueSize
  <2>1. \A n \in Notifiers : outbox[n] = <<>>  BY DEF NotifyInit
  <2>2. outbox \in [Notifiers -> {<<>>}]  BY DEF NotifyInit
  <2>3. Len(<<>>) <= QueueSize  BY NotifyAssumption
  <2>4. <<>> \in Seq(Posts) /\ \A n \in Notifiers : <<>> \in Seq(NoticesOf[n])  OBVIOUS
  <2>5. outbox \in [Notifiers -> Seq(Posts)]  BY <2>2, <2>4
  <2>6. QED  BY <2>1, <2>3, <2>4, <2>5
<1>3. NotifyTypeOK  BY <1>1, <1>2 DEF NotifyInit, NotifyTypeOK
<1>4. QED
  BY <1>1, <1>3 DEF NotifyInit, NotifyInv, RequestsWaitedFor, WorkerWaitedFor, QueueBeforeHost

LEMMA Enqueues == ASSUME NotifyInv, NEW n \in Notifiers, NEW m \in NoticesOf[n],
                         \/ Begin(n, m) \/ EnterQueue(n, m) \/ Queue(n, m)
                         \/ Drop(n, m) \/ MeetClosed(n, m)
                  PROVE  NotifyInv'
<1>0. m \in Posts /\ (n = "web" => m \in WebNotices) /\ (n = "patrol" => m \in PatrolNotices)
      /\ n \in {"web", "patrol"}
  BY DEF Notifiers, NoticesOf, Posts
<1>1. NotifyTypeOK'
  <2>1. CASE Queue(n, m)
    <3>1. Append(outbox[n], m) \in Seq(NoticesOf[n]) /\ Append(outbox[n], m) \in Seq(Posts)
          /\ Len(Append(outbox[n], m)) <= QueueSize
      BY <1>0, <2>1, NotifyAssumption DEF NotifyInv, NotifyTypeOK, Queue
    <3>2. QED  BY <1>0, <2>1, <3>1 DEF NotifyInv, NotifyTypeOK, Queue, Gets
  <2>2. CASE ~Queue(n, m)
    BY <1>0, <2>2 DEF NotifyInv, NotifyTypeOK, Begin, EnterQueue, Drop, MeetClosed, Gets
  <2>3. QED  BY <2>1, <2>2
<1>2. RequestsWaitedFor'
  <2>1. \A k \in Posts : k # m => post'[k] = post[k]
    BY <1>0 DEF NotifyInv, NotifyTypeOK, Gets, Begin, EnterQueue, Queue, Drop, MeetClosed
  <2>2. UNCHANGED <<phase, hasty>>  BY DEF Begin, EnterQueue, Queue, Drop, MeetClosed
  <2>3. CASE n = "web" /\ Begin(n, m)
    BY <2>2, <2>3 DEF RequestsWaitedFor, Begin
  <2>4. CASE n = "web" /\ ~Begin(n, m)
    BY <1>0, <2>1, <2>2, <2>4 DEF NotifyInv, RequestsWaitedFor, Awaited, Gets, EnterQueue, Queue,
                                  Drop, MeetClosed, Posts
  <2>5. CASE n = "patrol"
    <3>1. Awaited' = Awaited
      BY <1>0, <2>1, <2>5, NotifyAssumption DEF Awaited, Posts
    <3>2. QED  BY <2>2, <3>1 DEF NotifyInv, RequestsWaitedFor
  <2>6. QED  BY <1>0, <2>3, <2>4, <2>5
<1>3. WorkerWaitedFor'
  BY <1>0 DEF NotifyInv, NotifyTypeOK, RequestsWaitedFor, WorkerWaitedFor, Awaited, Gets, Begin,
              EnterQueue, Queue, Drop, MeetClosed, Posts, Notifiers
<1>4. QueueBeforeHost'
  BY <1>0 DEF NotifyInv, NotifyTypeOK, QueueBeforeHost, Gets, Begin, EnterQueue, Queue, Drop,
              MeetClosed, Posts
<1>5. QED  BY <1>1, <1>2, <1>3, <1>4 DEF NotifyInv

LEMMA EndsWithout == ASSUME NotifyInv, NEW m \in Posts, EndWithout(m) PROVE NotifyInv'
<1>1. NotifyTypeOK'  BY DEF NotifyInv, NotifyTypeOK, EndWithout, Gets
<1>2. QED
  BY <1>1 DEF NotifyInv, NotifyTypeOK, RequestsWaitedFor, WorkerWaitedFor, QueueBeforeHost, Awaited,
              EndWithout, Gets, Posts

LEMMA Takes == ASSUME NotifyInv, NEW n \in Notifiers, TakeNext(n) PROVE NotifyInv'
<1> DEFINE next == Head(outbox[n])
<1>0. next \in NoticesOf[n] /\ Tail(outbox[n]) \in Seq(NoticesOf[n])
      /\ Tail(outbox[n]) \in Seq(Posts) /\ Len(Tail(outbox[n])) <= QueueSize
  BY NotifyAssumption DEF NotifyInv, NotifyTypeOK, TakeNext
<1>1. next \in Posts /\ (n = "web" => next \in WebNotices)
      /\ (n = "patrol" => next \notin WebNotices) /\ n \in {"web", "patrol"}
  BY <1>0, NotifyAssumption DEF Notifiers, NoticesOf, Posts
<1> HIDE DEF next
<1>2. /\ postman[n] = "idle" /\ postman' = [postman EXCEPT ![n] = "sending"]
      /\ post' = [post EXCEPT ![next] = "sending"]
      /\ outbox' = [outbox EXCEPT ![n] = Tail(@)]
      /\ UNCHANGED <<shut, phase, patrol, hasty>>
  BY DEF TakeNext, next
<1>3. NotifyTypeOK'  BY <1>0, <1>1, <1>2 DEF NotifyInv, NotifyTypeOK
<1>4. RequestsWaitedFor'
  BY <1>1, <1>2 DEF NotifyInv, NotifyTypeOK, RequestsWaitedFor, Awaited, Posts
<1>5. WorkerWaitedFor'
  BY <1>1, <1>2 DEF NotifyInv, NotifyTypeOK, WorkerWaitedFor, Posts, Notifiers
<1>6. QueueBeforeHost'
  BY <1>1, <1>2 DEF NotifyInv, NotifyTypeOK, QueueBeforeHost, Posts
<1>7. QED  BY <1>3, <1>4, <1>5, <1>6 DEF NotifyInv

LEMMA WorkerGoes == ASSUME NotifyInv, NEW n \in Notifiers, WorkerLeaves(n) PROVE NotifyInv'
<1>1. NotifyTypeOK'  BY DEF NotifyInv, NotifyTypeOK, WorkerLeaves
<1>2. QED
  BY <1>1 DEF NotifyInv, NotifyTypeOK, RequestsWaitedFor, WorkerWaitedFor, QueueBeforeHost, Awaited,
              WorkerLeaves, Notifiers

LEMMA Sends == ASSUME NotifyInv, NEW n \in Notifiers, NEW m \in NoticesOf[n], Send(n, m)
               PROVE  NotifyInv'
<1>0. m \in Posts /\ (n = "web" => m \in WebNotices) /\ (n = "patrol" => m \notin WebNotices)
      /\ n \in {"web", "patrol"}
  BY NotifyAssumption DEF Notifiers, NoticesOf, Posts
<1>1. PICK fate \in {"sent", "unsent", "cutOff"} :
          (fate = "cutOff" => phase = "stopping") /\ post' = [post EXCEPT ![m] = fate]
  BY DEF Send
<1>2. /\ postman[n] = "sending" /\ post[m] = "sending"
      /\ postman' = [postman EXCEPT ![n] = "idle"]
      /\ UNCHANGED <<outbox, shut, phase, patrol, hasty>>
  BY DEF Send
<1>3. NotifyTypeOK'  BY <1>0, <1>1, <1>2 DEF NotifyInv, NotifyTypeOK
<1>4. RequestsWaitedFor'
  BY <1>0, <1>1, <1>2 DEF NotifyInv, NotifyTypeOK, RequestsWaitedFor, Awaited, Posts
<1>5. WorkerWaitedFor'
  BY <1>0, <1>1, <1>2 DEF NotifyInv, NotifyTypeOK, WorkerWaitedFor, Posts, Notifiers
<1>6. QueueBeforeHost'
  BY <1>0, <1>1, <1>2 DEF NotifyInv, NotifyTypeOK, WorkerWaitedFor, QueueBeforeHost, Posts
<1>7. QED  BY <1>3, <1>4, <1>5, <1>6 DEF NotifyInv

LEMMA MainMoves == ASSUME NotifyInv,
                          \/ GetSignal \/ ServerFails \/ Drain \/ TellPatrol \/ CloseWeb
                          \/ WebClosed \/ Exit
                   PROVE  NotifyInv'
<1>1. NotifyTypeOK'
  BY DEF NotifyInv, NotifyTypeOK, MainGoes, GetSignal, ServerFails, Drain, TellPatrol, CloseWeb,
         WebClosed, Exit, Notifiers
<1>2. RequestsWaitedFor'
  BY DEF NotifyInv, RequestsWaitedFor, Awaited, MainGoes, GetSignal, ServerFails, Drain, TellPatrol,
         CloseWeb, WebClosed, Exit
<1>3. WorkerWaitedFor'
  BY DEF NotifyInv, WorkerWaitedFor, WaitOver, MainGoes, GetSignal, ServerFails, Drain, TellPatrol,
         CloseWeb, WebClosed, Exit
<1>4. QueueBeforeHost'
  BY DEF NotifyInv, NotifyTypeOK, QueueBeforeHost, MainGoes, GetSignal, ServerFails, Drain,
         TellPatrol, CloseWeb, WebClosed, Exit
<1>5. QED  BY <1>1, <1>2, <1>3, <1>4 DEF NotifyInv

LEMMA NotifyStep == NotifyInv /\ [NotifyNext]_notifyVars => NotifyInv'
<1> SUFFICES ASSUME NotifyInv, [NotifyNext]_notifyVars PROVE NotifyInv'  OBVIOUS
<1>1. CASE UNCHANGED notifyVars
  BY <1>1 DEF notifyVars, NotifyInv, NotifyTypeOK, RequestsWaitedFor, WorkerWaitedFor,
              QueueBeforeHost, Awaited
<1>2. CASE PatrolStops \/ PatrolEnds
  <2>1. NotifyTypeOK'
    BY <1>2 DEF NotifyInv, NotifyTypeOK, PatrolStops, PatrolEnds, Notifiers
  <2>2. QED
    BY <1>2, <2>1 DEF NotifyInv, RequestsWaitedFor, WorkerWaitedFor, QueueBeforeHost, Awaited,
                      PatrolStops, PatrolEnds
<1>3. QED
  BY <1>1, <1>2, Enqueues, EndsWithout, Takes, WorkerGoes, Sends, MainMoves DEF NotifyNext

-----------------------------------------------------------------------------
(* Nothing is orphaned.                                                    *)

\* For every instance: one loop at most starts processes of a plugin and a process
\* that escaped cannot call back (plugin/instance.go); a host upstream belongs to its
\* service or to a request, unless something happened that the code lets cost it
\* (order.go); a machine has a row, or strayed in a way the code chooses (admin.go);
\* the mail of a request that was waited for does not meet a host that stops (main.go).
THEOREM NothingIsOrphaned == PlatformSpec => []NothingOrphaned
<1> DEFINE Inv == /\ part = "plugins" => PluginsInv
                  /\ part = "provision" => ProvisionInv
                  /\ part = "estate" => EstateInv
                  /\ part = "notices" => NotifyInv
<1>1. PlatformInit => Inv
  BY PluginsStart, ProvisionStart, EstateStart, NotifyStart DEF PlatformInit
<1>2. Inv /\ [PlatformNext]_platformVars => Inv'
  <2> SUFFICES ASSUME Inv, [PlatformNext]_platformVars PROVE Inv'  OBVIOUS
  <2>1. UNCHANGED part  BY DEF PlatformNext, Still, platformVars
  <2>2. ASSUME part = "plugins" PROVE PluginsInv'
    <3>1. [PluginsNext]_pluginVars  BY <2>2 DEF PlatformNext, platformVars
    <3>2. QED  BY <2>2, <3>1, PluginsStep
  <2>3. ASSUME part = "provision" PROVE ProvisionInv'
    <3>1. [ProvisionNext]_provisionVars  BY <2>3 DEF PlatformNext, platformVars
    <3>2. QED  BY <2>3, <3>1, ProvisionStep
  <2>4. ASSUME part = "estate" PROVE EstateInv'
    <3>1. [EstateNext]_estateVars  BY <2>4 DEF PlatformNext, platformVars
    <3>2. QED  BY <2>4, <3>1, EstateStep
  <2>5. ASSUME part = "notices" PROVE NotifyInv'
    <3>1. [NotifyNext]_notifyVars  BY <2>5 DEF PlatformNext, platformVars
    <3>2. QED  BY <2>5, <3>1, NotifyStep
  <2>6. QED  BY <2>1, <2>2, <2>3, <2>4, <2>5
<1>3. Inv => NothingOrphaned
  <2>1. ProvisionInv => HostsHeld  BY DEF ProvisionInv, OneOwner, HostsHeld
  <2>2. EstateInv => NoMachineLost  BY DEF EstateInv
  <2>3. NotifyInv => QueueBeforeHost  BY DEF NotifyInv
  <2>4. QED  BY <2>1, <2>2, <2>3, Muted DEF NothingOrphaned
<1>4. QED  BY <1>1, <1>2, <1>3, PTL DEF PlatformSpec

-----------------------------------------------------------------------------
(* The types of the plugin and its host.                                   *)

InstFits == [known : {"no", "yes", "gone"}, fit : BOOLEAN,
             state : {"stopped", "running", "error", "crashed", "skipped"},
             enabled : BOOLEAN, conn : 0..MaxAlive, key : 0..MaxKeys,
             crashes : 0..CrashLimit, current : 0..MaxLoops]
LoopFits == [at : {"off", "launch", "probe", "publish", "watch", "verdict", "wait"},
             cancelled : BOOLEAN, mine : 0..MaxAlive]
ProcessFits == [is : {"dead", "alive", "left"}, key : 0..MaxKeys]
AskSteps == {"idle", "check", "issue", "start", "stop", "join", "close", "configure", "down"}
AskFits == [at : AskSteps, key : 0..MaxKeys, conn : 0..MaxAlive]

LEMMA PluginsTypeIs ==
  PluginsTypeOK <=>
    /\ disk \in {"none", "unfit", "fit"} /\ wish \in [enabled : BOOLEAN, granted : BOOLEAN]
    /\ inst \in InstFits /\ loop \in [Loops -> LoopFits] /\ process \in [Processes -> ProcessFits]
    /\ active \in 0..MaxKeys /\ mishaps \in 0..MaxMishaps /\ ask \in [Agents -> AskFits]
BY DEF PluginsTypeOK, InstFits, LoopFits, ProcessFits, AskFits, AskSteps

\* A number within its bound.
LEMMA BoundsFit ==
  /\ 0 \in 0..MaxAlive /\ 0 \in 0..MaxKeys /\ 0 \in 0..CrashLimit /\ 0 \in 0..MaxLoops /\ 0 \in 0..MaxMishaps
  /\ Loops \subseteq 0..MaxLoops /\ Processes \subseteq 0..MaxAlive
BY PluginsAssumption DEF Loops, Processes

LEMMA RestFits ==
  /\ Rest \in AskFits /\ Off \in LoopFits /\ Dead \in ProcessFits /\ Unknown \in InstFits
BY BoundsFit DEF Rest, AskFits, AskSteps, Off, LoopFits, Dead, ProcessFits, Unknown, InstFits

LEMMA AskFitsMoves ==
  ASSUME PluginsTypeOK, NEW a \in Agents, NEW w \in AskFits, Asks(a, w)
  PROVE  ask' \in [Agents -> AskFits]
BY PluginsTypeIs DEF Asks

LEMMA GoesFits ==
  ASSUME PluginsTypeOK, NEW a \in Agents, NEW from, NEW to \in AskSteps, Goes(a, from, to)
  PROVE  ask' \in [Agents -> AskFits]
<1> DEFINE w == [ask[a] EXCEPT !.at = to]
<1>1. ask \in [Agents -> AskFits]  BY PluginsTypeIs
<1>2. w \in AskFits  BY <1>1 DEF AskFits
<1>3. ask' = [ask EXCEPT ![a] = w]  BY <1>1 DEF Goes
<1> HIDE DEF w
<1>4. QED  BY <1>1, <1>2, <1>3

\* One request at rest but for its step, and the client it took.
LEMMA RestAt ==
  ASSUME NEW to \in AskSteps, NEW k \in 0..MaxKeys, NEW c \in 0..MaxAlive
  PROVE  /\ [Rest EXCEPT !.at = to] \in AskFits
         /\ [Rest EXCEPT !.at = to, !.key = k] \in AskFits
         /\ [Rest EXCEPT !.at = to, !.conn = c] \in AskFits
BY RestFits DEF AskFits, Rest

LEMMA LoopFitsMoves ==
  ASSUME PluginsTypeOK, NEW l \in Loops, NEW at \in {"launch", "probe", "publish", "watch", "verdict", "wait"},
         NEW m \in 0..MaxAlive
  PROVE  /\ [loop EXCEPT ![l] = Off] \in [Loops -> LoopFits]
         /\ [loop EXCEPT ![l].at = at] \in [Loops -> LoopFits]
         /\ [loop EXCEPT ![l].at = at, ![l].mine = m] \in [Loops -> LoopFits]
<1> DEFINE u == [loop[l] EXCEPT !.at = at]
           w == [loop[l] EXCEPT !.at = at, !.mine = m]
<1>1. loop \in [Loops -> LoopFits]  BY PluginsTypeIs
<1>2. u \in LoopFits /\ w \in LoopFits  BY <1>1 DEF LoopFits
<1>3. /\ [loop EXCEPT ![l].at = at] = [loop EXCEPT ![l] = u]
      /\ [loop EXCEPT ![l].at = at, ![l].mine = m] = [loop EXCEPT ![l] = w]
  BY <1>1
<1> HIDE DEF u, w
<1>4. QED  BY <1>1, <1>2, <1>3, RestFits

LEMMA HandoverFits == ASSUME PluginsTypeOK PROVE Handover \in [Loops -> LoopFits]
<1>1. loop \in [Loops -> LoopFits]  BY PluginsTypeIs
<1>2. CASE inst.current \in Loops
  <2> DEFINE w == [loop[inst.current] EXCEPT !.cancelled = TRUE]
  <2>1. w \in LoopFits  BY <1>1, <1>2 DEF LoopFits
  <2>2. [loop EXCEPT ![inst.current].cancelled = TRUE] = [loop EXCEPT ![inst.current] = w]
    BY <1>1
  <2> HIDE DEF w
  <2>3. QED  BY <1>1, <1>2, <2>1, <2>2 DEF Handover
<1>3. CASE inst.current \notin Loops
  <2>1. [loop EXCEPT ![inst.current].cancelled = TRUE] = loop  BY <1>1, <1>3
  <2>2. QED  BY <1>1, <2>1 DEF Handover
<1>4. QED  BY <1>2, <1>3

LEMMA KilledFits ==
  ASSUME PluginsTypeOK, NEW p
  PROVE  Killed(p) \in [Processes -> ProcessFits] /\ KilledIf(p) \in [Processes -> ProcessFits]
BY PluginsTypeIs, RestFits DEF Killed, KilledIf

LEMMA ErrorFits == ASSUME PluginsTypeOK PROVE SetError \in InstFits
<1> DEFINE c == IF inst.crashes < CrashLimit THEN inst.crashes + 1 ELSE inst.crashes
<1>1. inst \in InstFits  BY PluginsTypeIs
<1>2. c \in 0..CrashLimit  BY <1>1, PluginsAssumption DEF InstFits
<1>3. SetError = [inst EXCEPT !.state = "error", !.conn = 0, !.crashes = c]  BY DEF SetError
<1> HIDE DEF c
<1>4. QED  BY <1>1, <1>2, <1>3, BoundsFit DEF InstFits

LEMMA ScannedFits == ASSUME PluginsTypeOK PROVE Scanned \in InstFits
<1> DEFINE first == IF disk = "fit" THEN "stopped" ELSE "skipped"
           then == IF disk = "unfit" THEN "skipped"
                   ELSE IF inst.state = "skipped" /\ ~inst.fit THEN "stopped" ELSE inst.state
<1>1. inst \in InstFits  BY PluginsTypeIs
<1>2. first \in {"stopped", "skipped"} /\ then \in {"stopped", "running", "error", "crashed", "skipped"}
  BY <1>1 DEF InstFits
<1>3. Scanned = IF inst.known = "no" THEN [Unknown EXCEPT !.known = "yes", !.fit = (disk = "fit"), !.state = first]
                ELSE [inst EXCEPT !.fit = (disk = "fit"), !.state = then]
  BY DEF Scanned
<1> HIDE DEF first, then
<1>4. [Unknown EXCEPT !.known = "yes", !.fit = (disk = "fit"), !.state = first] \in InstFits
  BY <1>2, RestFits DEF InstFits
<1>5. [inst EXCEPT !.fit = (disk = "fit"), !.state = then] \in InstFits
  BY <1>1, <1>2 DEF InstFits
<1>6. QED  BY <1>3, <1>4, <1>5

LEMMA TroubleFits == ASSUME PluginsTypeOK, Trouble PROVE mishaps' \in 0..MaxMishaps
BY PluginsAssumption DEF PluginsTypeOK, Trouble

LEMMA PluginsTypedStart == PluginsInit => PluginsTypeOK
<1> SUFFICES ASSUME PluginsInit PROVE PluginsTypeOK  OBVIOUS
<1>1. QED  BY RestFits, BoundsFit, PluginsTypeIs DEF PluginsInit

LEMMA AdministerTypes ==
  ASSUME PluginsTypeOK, NEW a \in Agents, Administer(a) PROVE PluginsTypeOK'
<1>t. /\ inst \in InstFits /\ ask[a] \in AskFits /\ wish \in [enabled : BOOLEAN, granted : BOOLEAN]
      /\ loop \in [Loops -> LoopFits]
  BY PluginsTypeIs
<1>1. CASE Reload(a)
  <2>1. inst' \in InstFits
    <3>1. [inst EXCEPT !.known = "gone"] \in InstFits  BY <1>t DEF InstFits
    <3>2. QED  BY <1>1, <3>1, ScannedFits DEF Reload
  <2>2. ask' \in [Agents -> AskFits]
    <3>1. [Rest EXCEPT !.at = "stop"] \in AskFits  BY RestAt, BoundsFit DEF AskSteps
    <3>2. CASE disk = "none"  BY <1>1, <3>1, <3>2, AskFitsMoves DEF Reload
    <3>3. CASE disk # "none"  BY <1>1, <3>3, PluginsTypeIs DEF Reload
    <3>4. QED  BY <3>2, <3>3
  <2>3. UNCHANGED <<disk, wish, loop, process, active, mishaps>>  BY <1>1 DEF Reload
  <2>4. QED  BY <2>1, <2>2, <2>3, PluginsTypeIs DEF PluginsTypeOK, InstFits, AskFits, AskSteps
<1>2. CASE AskEnable(a) \/ AskDisable(a)
  <2>1. ask' \in [Agents -> AskFits]  BY <1>2, GoesFits DEF AskEnable, AskDisable, AskSteps
  <2>2. wish' \in [enabled : BOOLEAN, granted : BOOLEAN]  BY <1>2, <1>t DEF AskEnable, AskDisable
  <2>3. UNCHANGED <<disk, inst, loop, process, active, mishaps>>  BY <1>2 DEF AskEnable, AskDisable
  <2>4. QED  BY <2>1, <2>2, <2>3 DEF PluginsTypeOK, AskFits, AskSteps
<1>3. CASE CheckLoadable(a)
  <2>1. ask' \in [Agents -> AskFits]  BY <1>3, GoesFits DEF CheckLoadable, AskSteps
  <2>2. active' \in 0..MaxKeys  BY <1>3, BoundsFit DEF CheckLoadable
  <2>3. UNCHANGED <<disk, wish, inst, loop, process, mishaps>>  BY <1>3 DEF CheckLoadable
  <2>4. QED  BY <2>1, <2>2, <2>3 DEF PluginsTypeOK, AskFits, AskSteps
<1>4. CASE EnableFails(a)
  <2>1. ask' \in [Agents -> AskFits]  BY <1>4, GoesFits DEF EnableFails, AskSteps
  <2>2. wish' \in [enabled : BOOLEAN, granted : BOOLEAN]  BY <1>4, <1>t DEF EnableFails
  <2>3. UNCHANGED <<disk, inst, loop, process, active, mishaps>>  BY <1>4 DEF EnableFails
  <2>4. QED  BY <2>1, <2>2, <2>3 DEF PluginsTypeOK, AskFits, AskSteps
<1>5. CASE IssueKey(a)
  <2>1. UNCHANGED <<disk, wish, inst, loop, process, mishaps>>  BY <1>5 DEF IssueKey
  <2>2. CASE ~wish.granted
    <3>1. Goes(a, "issue", "start") /\ UNCHANGED active  BY <1>5, <2>2 DEF IssueKey
    <3>2. ask' \in [Agents -> AskFits]  BY <3>1, GoesFits DEF AskSteps
    <3>3. QED  BY <2>1, <3>1, <3>2 DEF PluginsTypeOK, AskFits, AskSteps
  <2>3. CASE wish.granted
    <3>1. PICK k \in Fresh : active' = k /\ Asks(a, [Rest EXCEPT !.at = "start", !.key = k])
      BY <1>5, <2>3 DEF IssueKey
    <3>2. k \in 0..MaxKeys  BY PluginsAssumption DEF Fresh
    <3>3. [Rest EXCEPT !.at = "start", !.key = k] \in AskFits  BY <3>2, RestAt, BoundsFit DEF AskSteps
    <3>4. ask' \in [Agents -> AskFits]  BY <3>1, <3>3, AskFitsMoves
    <3>5. QED  BY <2>1, <3>1, <3>2, <3>4 DEF PluginsTypeOK, AskFits, AskSteps
  <2>4. QED  BY <2>2, <2>3
<1>6. CASE Start(a)
  <2>1. ask' \in [Agents -> AskFits]  BY <1>6, GoesFits DEF Start, AskSteps
  <2>2. UNCHANGED <<disk, wish, process, active, mishaps>>
    BY <1>6 DEF Start
  <2>3. CASE UNCHANGED <<inst, loop>>
    BY <2>1, <2>2, <2>3 DEF PluginsTypeOK, AskFits, AskSteps
  <2>4. CASE ~UNCHANGED <<inst, loop>>
    <3>1. PICK l \in Loops :
            /\ loop' = [Handover EXCEPT ![l] = [Off EXCEPT !.at = "launch"]]
            /\ inst' = [inst EXCEPT !.enabled = TRUE, !.key = ask[a].key, !.crashes = 0, !.current = l]
      BY <1>6, <2>4 DEF Start
    <3>2. [Off EXCEPT !.at = "launch"] \in LoopFits  BY RestFits DEF LoopFits
    <3>3. loop' \in [Loops -> LoopFits]  BY <3>1, <3>2, HandoverFits
    <3>4. ask[a].key \in 0..MaxKeys /\ l \in 0..MaxLoops /\ 0 \in 0..CrashLimit
      BY <1>t, BoundsFit DEF AskFits
    <3>5. inst' \in InstFits  BY <3>1, <3>4, <1>t DEF InstFits
    <3>6. QED  BY <2>1, <2>2, <3>3, <3>5 DEF PluginsTypeOK, AskFits, AskSteps, InstFits, LoopFits
  <2>5. QED  BY <2>3, <2>4
<1>7. CASE CancelLoop(a)
  <2>1. ask' \in [Agents -> AskFits]  BY <1>7, GoesFits DEF CancelLoop, AskSteps
  <2>2. inst' \in InstFits  BY <1>7, <1>t, BoundsFit DEF CancelLoop, InstFits
  <2>3. loop' \in [Loops -> LoopFits]  BY <1>7, HandoverFits DEF CancelLoop
  <2>4. UNCHANGED <<disk, wish, process, active, mishaps>>  BY <1>7 DEF CancelLoop
  <2>5. QED  BY <2>1, <2>2, <2>3, <2>4 DEF PluginsTypeOK, AskFits, AskSteps, InstFits, LoopFits
<1>8. CASE JoinLoops(a)
  <2> DEFINE s == IF inst.state = "skipped" THEN inst.state ELSE "stopped"
  <2>1. inst.conn \in 0..MaxAlive /\ s \in {"skipped", "stopped"}  BY <1>t DEF InstFits
  <2>2. [Rest EXCEPT !.at = "close", !.conn = inst.conn] \in AskFits
    BY <2>1, RestAt, BoundsFit DEF AskSteps
  <2>3. ask' \in [Agents -> AskFits]  BY <1>8, <2>2, AskFitsMoves DEF JoinLoops
  <2>4. inst' = [inst EXCEPT !.conn = 0, !.state = s]  BY <1>8 DEF JoinLoops
  <2> HIDE DEF s
  <2>5. inst' \in InstFits  BY <2>1, <2>4, <1>t, BoundsFit DEF InstFits
  <2>6. UNCHANGED <<disk, wish, loop, process, active, mishaps>>  BY <1>8 DEF JoinLoops
  <2>7. QED  BY <2>3, <2>5, <2>6 DEF PluginsTypeOK, AskFits, AskSteps, InstFits
<1>9. CASE CloseProcess(a)
  <2>1. \A to \in {"idle", "down"} : [Rest EXCEPT !.at = to] \in AskFits
    BY RestAt, BoundsFit DEF AskSteps
  <2>2. ask' \in [Agents -> AskFits]  BY <1>9, <2>1, AskFitsMoves DEF CloseProcess
  <2>3. process' \in [Processes -> ProcessFits]  BY <1>9, KilledFits DEF CloseProcess
  <2>4. active' \in 0..MaxKeys  BY <1>9, BoundsFit DEF CloseProcess, KeyRevoked
  <2>5. UNCHANGED <<disk, wish, inst, loop, mishaps>>  BY <1>9 DEF CloseProcess
  <2>6. QED  BY <2>2, <2>3, <2>4, <2>5 DEF PluginsTypeOK, AskFits, AskSteps, ProcessFits
<1>10. CASE Reconfigure(a)
  <2>1. inst.conn \in 0..MaxAlive  BY <1>t DEF InstFits
  <2>2. [Rest EXCEPT !.at = "configure", !.conn = inst.conn] \in AskFits
    BY <2>1, RestAt, BoundsFit DEF AskSteps
  <2>3. ask' \in [Agents -> AskFits]  BY <1>10, <2>2, AskFitsMoves DEF Reconfigure
  <2>4. UNCHANGED <<disk, wish, inst, loop, process, active, mishaps>>  BY <1>10 DEF Reconfigure
  <2>5. QED  BY <2>3, <2>4 DEF PluginsTypeOK, AskFits, AskSteps
<1>11. ASSUME NEW ok \in BOOLEAN, ConfigureAnswered(a, ok) PROVE PluginsTypeOK'
  <2>1. ask' \in [Agents -> AskFits]  BY <1>11, RestFits, AskFitsMoves DEF ConfigureAnswered
  <2>2. inst' \in InstFits  BY <1>11, <1>t, ErrorFits DEF ConfigureAnswered
  <2>3. UNCHANGED <<disk, wish, loop, process, active, mishaps>>  BY <1>11 DEF ConfigureAnswered
  <2>4. QED  BY <2>1, <2>2, <2>3 DEF PluginsTypeOK, AskFits, AskSteps, InstFits
<1>12. QED
  BY <1>1, <1>2, <1>3, <1>4, <1>5, <1>6, <1>7, <1>8, <1>9, <1>10, <1>11 DEF Administer

LEMMA SuperviseTypes ==
  ASSUME PluginsTypeOK, NEW l \in Loops, Supervise(l) PROVE PluginsTypeOK'
<1>t. /\ inst \in InstFits /\ loop[l] \in LoopFits /\ loop[l].mine \in 0..MaxAlive
      /\ process \in [Processes -> ProcessFits] /\ inst.key \in 0..MaxKeys
  BY PluginsTypeIs DEF LoopFits, InstFits
<1>e. UNCHANGED <<disk, wish, active, ask, mishaps>>
  BY DEF Supervise, Launch, Probed, AttemptFails, Publish, HealthFails, WatchEnds, Verdict, BackOffEnds
<1>g. ASSUME inst' \in InstFits, loop' \in [Loops -> LoopFits], process' \in [Processes -> ProcessFits]
      PROVE  PluginsTypeOK'
  BY <1>e, <1>g DEF PluginsTypeOK, InstFits, LoopFits, ProcessFits
<1>n. loop \in [Loops -> LoopFits]  BY PluginsTypeIs
<1>o. [loop EXCEPT ![l] = Off] \in [Loops -> LoopFits]
  BY <1>n, RestFits
<1>x. ASSUME NEW x \in {"launch", "verdict", "wait"} PROVE [loop EXCEPT ![l].at = x] \in [Loops -> LoopFits]
  BY <1>x, LoopFitsMoves, BoundsFit
<1>v. [loop EXCEPT ![l].at = "verdict", ![l].mine = 0] \in [Loops -> LoopFits]
  BY LoopFitsMoves, BoundsFit
<1>1. CASE Launch(l)
  <2>1. PICK p \in Processes :
          /\ process' = [process EXCEPT ![p] = [is |-> "alive", key |-> inst.key]]
          /\ loop' = [loop EXCEPT ![l].at = "probe", ![l].mine = p]
    BY <1>1 DEF Launch
  <2>2. loop' \in [Loops -> LoopFits]  BY <2>1, LoopFitsMoves, BoundsFit
  <2>3. process' \in [Processes -> ProcessFits]  BY <2>1, <1>t DEF ProcessFits
  <2>4. QED  BY <1>1, <1>g, <1>t, <2>2, <2>3 DEF Launch
<1>2. CASE Probed(l)
  BY <1>2, <1>g, <1>t, LoopFitsMoves, BoundsFit DEF Probed, Enters
<1>3. CASE AttemptFails(l)
  <2>1. process' \in [Processes -> ProcessFits]  BY <1>3, KilledFits DEF AttemptFails
  <2>2. loop' \in [Loops -> LoopFits]
    <3>1. CASE loop[l].cancelled  BY <1>3, <3>1, <1>o DEF AttemptFails, Leave
    <3>2. CASE ~loop[l].cancelled  BY <1>3, <3>2, <1>v DEF AttemptFails
    <3>3. QED  BY <3>1, <3>2
  <2>3. inst' \in InstFits  BY <1>3, <1>t, ErrorFits DEF AttemptFails
  <2>4. QED  BY <1>g, <2>1, <2>2, <2>3
<1>4. CASE Publish(l)
  <2>1. loop' \in [Loops -> LoopFits]  BY <1>4, LoopFitsMoves, BoundsFit DEF Publish
  <2>2. inst' \in InstFits  BY <1>4, <1>t DEF Publish, InstFits
  <2>3. QED  BY <1>4, <1>g, <1>t, <2>1, <2>2 DEF Publish
<1>5. CASE HealthFails(l)
  BY <1>5, <1>g, ErrorFits, KilledFits, LoopFitsMoves, BoundsFit DEF HealthFails, Enters
<1>6. CASE WatchEnds(l)
  <2>1. loop' \in [Loops -> LoopFits]
    BY <1>6, <1>n, <1>o, <1>x DEF WatchEnds, Enters, Leave
  <2>2. QED  BY <1>6, <1>g, <1>t, <2>1 DEF WatchEnds
<1>7. CASE Verdict(l)
  <2>1. loop' \in [Loops -> LoopFits]
    BY <1>7, <1>n, <1>o, <1>x DEF Verdict, Enters, Leave
  <2>2. inst' \in InstFits
    <3>1. [inst EXCEPT !.state = "crashed"] \in InstFits  BY <1>t DEF InstFits
    <3>2. QED  BY <1>7, <1>t, <3>1 DEF Verdict
  <2>3. QED  BY <1>7, <1>g, <1>t, <2>1, <2>2 DEF Verdict
<1>8. CASE BackOffEnds(l)
  <2>1. loop' \in [Loops -> LoopFits]
    BY <1>8, <1>n, <1>o, <1>x DEF BackOffEnds, Enters, Leave
  <2>2. QED  BY <1>8, <1>g, <1>t, <2>1 DEF BackOffEnds
<1>9. QED
  BY <1>1, <1>2, <1>3, <1>4, <1>5, <1>6, <1>7, <1>8 DEF Supervise

LEMMA PluginsTypes == PluginsTypeOK /\ [PluginsNext]_pluginVars => PluginsTypeOK'
<1> SUFFICES ASSUME PluginsTypeOK, [PluginsNext]_pluginVars PROVE PluginsTypeOK'
  OBVIOUS
<1>h. "host" \in Agents  BY DEF Agents
<1>1. CASE UNCHANGED pluginVars  BY <1>1 DEF PluginsTypeOK, pluginVars
<1>2. CASE Install  BY <1>2 DEF Install, PluginsTypeOK
<1>3. ASSUME NEW d \in {"none", "unfit", "fit"}, Tamper(d) PROVE PluginsTypeOK'
  BY <1>3, TroubleFits DEF Tamper, PluginsTypeOK
<1>4. ASSUME NEW a \in Agents, Administer(a) PROVE PluginsTypeOK'  BY <1>4, AdministerTypes
<1>5. ASSUME NEW granted \in BOOLEAN, SetScopes(granted) PROVE PluginsTypeOK'
  BY <1>5, TroubleFits DEF SetScopes, PluginsTypeOK
<1>6. ASSUME NEW l \in Loops, Supervise(l) PROVE PluginsTypeOK'  BY <1>6, SuperviseTypes
<1>7. CASE ForgetCrashes  BY <1>7, BoundsFit DEF ForgetCrashes, PluginsTypeOK
<1>8. ASSUME NEW p \in Processes, ProcessExits(p) PROVE PluginsTypeOK'
  BY <1>8, TroubleFits, KilledFits DEF ProcessExits, PluginsTypeOK, ProcessFits
<1>9. CASE Shutdown
  <2>1. ask' \in [Agents -> AskFits]  BY <1>9, <1>h, GoesFits DEF Shutdown, AskSteps
  <2>2. QED  BY <1>9, <2>1 DEF Shutdown, PluginsTypeOK, AskFits, AskSteps
<1>10. CASE HostDies
  <2>1. [Rest EXCEPT !.at = "down"] \in AskFits  BY RestAt, BoundsFit DEF AskSteps
  <2>2. ask' \in [Agents -> AskFits] /\ inst' \in InstFits /\ loop' \in [Loops -> LoopFits]
    BY <1>10, <2>1, RestFits DEF HostDies
  <2>3. process' \in [Processes -> ProcessFits]
    <3>1. \A p \in Processes : process[p] \in ProcessFits  BY PluginsTypeIs
    <3>2. \A p \in Processes : [process[p] EXCEPT !.is = "left"] \in ProcessFits
      BY <3>1 DEF ProcessFits
    <3>3. QED  BY <1>10, <3>2, RestFits DEF HostDies
  <2>4. QED
    BY <1>10, <2>2, <2>3, TroubleFits
    DEF HostDies, PluginsTypeOK, AskFits, AskSteps, InstFits, LoopFits, ProcessFits
<1>11. CASE HostStarts
  <2>1. [Rest EXCEPT !.at = "check"] \in AskFits  BY RestAt, BoundsFit DEF AskSteps
  <2>2. ask' \in [Agents -> AskFits]
    BY <1>11, <1>h, <2>1, RestFits, AskFitsMoves DEF HostStarts
  <2>3. inst' \in InstFits
    <3> DEFINE first == IF disk = "fit" THEN "stopped" ELSE "skipped"
               found == [Unknown EXCEPT !.known = "yes", !.fit = (disk = "fit"), !.state = first]
    <3>1. first \in {"stopped", "skipped"}  OBVIOUS
    <3>2. inst' = Unknown \/ inst' = found  BY <1>11 DEF HostStarts
    <3> HIDE DEF first
    <3>3. found \in InstFits  BY <3>1, RestFits DEF InstFits
    <3>4. QED  BY <3>2, <3>3, RestFits
  <2>4. QED
    BY <1>11, <2>2, <2>3, BoundsFit DEF HostStarts, PluginsTypeOK, AskFits, AskSteps, InstFits
<1>12. QED
  BY <1>1, <1>2, <1>3, <1>4, <1>5, <1>6, <1>7, <1>8, <1>9, <1>10, <1>11 DEF PluginsNext

-----------------------------------------------------------------------------
(* The types of the estate and of a provisioning.                          *)

\* What EstateShape leaves open: the accounts, the strays, and the units to be opened.
EstateRest ==
    /\ tenant \subseteq Tenants /\ stray \subseteq Machines
    /\ \A e \in Errands : errand[e].left \in 0..MaxQuantity

LEMMA EstateTypeIs == EstateTypeOK <=> EstateShape /\ EstateRest
<1>1. ASSUME EstateTypeOK PROVE EstateShape /\ EstateRest
  <2>1. errand \in [Errands -> ErrandRow]
    <3>1. \A e \in Errands : errand[e] \in ErrandRow
      BY <1>1, EstateAssumption DEF EstateTypeOK, ErrandRow
    <3>2. QED  BY <1>1, <3>1 DEF EstateTypeOK
  <2>2. QED  BY <1>1, <2>1 DEF EstateTypeOK, EstateShape, EstateRest
<1>2. ASSUME EstateShape, EstateRest PROVE EstateTypeOK
  <2> DEFINE Holds == [at : {"idle", "opening", "binding", "terminate", "delete", "batch", "cascade"},
                       who : Tenants \cup {"none"}, row : Rows \cup {"none"},
                       machine : Machines \cup {NoMachine}, made : SUBSET Machines,
                       left : 0..MaxQuantity, listed : SUBSET Rows, rest : SUBSET Rows]
  <2>1. \A e \in Errands : errand[e] \in Holds
    BY <1>2 DEF EstateShape, EstateRest, ErrandRow
  <2>2. errand \in [Errands -> Holds]  BY <1>2, <2>1 DEF EstateShape
  <2>3. QED  BY <1>2, <2>2 DEF EstateTypeOK, EstateShape, EstateRest
<1>3. QED  BY <1>1, <1>2

LEMMA EstateRestStart == EstateInit => EstateRest
BY EstateAssumption DEF EstateInit, EstateRest, NoErrand

\* A step that gives one errand as many units as it had, or fewer, or as many as are asked for.
LEMMA LeftMoves ==
  ASSUME EstateShape, EstateRest, NEW e \in Errands, NEW w, errand' = [errand EXCEPT ![e] = w],
         w.left \in 0..MaxQuantity
  PROVE  \A d \in Errands : errand'[d].left \in 0..MaxQuantity
BY DEF EstateShape, EstateRest

LEMMA EstateRestKept ==
  EstateInv /\ EstateRest /\ [EstateNext]_estateVars => EstateRest'
<1> SUFFICES ASSUME EstateInv, EstateRest, [EstateNext]_estateVars PROVE EstateRest'
  OBVIOUS
<1>t. /\ EstateShape /\ 0 \in 0..MaxQuantity /\ NoErrand.left = 0
      /\ \A e \in Errands : errand[e] \in ErrandRow /\ errand[e].made \subseteq Machines
      /\ \A s \in Rows : row[s].machine \in Machines \cup {NoMachine}
  BY EstateAssumption DEF EstateInv, EstateShape, ErrandRow, NoErrand
<1>q. \A e \in Errands : errand[e].left \in 0..MaxQuantity  BY DEF EstateRest
<1>m. ASSUME NEW e \in Errands, NEW w, errand' = [errand EXCEPT ![e] = w],
             w.left = errand[e].left \/ w.left \in 0..MaxQuantity,
             tenant' \subseteq tenant, stray' \subseteq Machines
      PROVE  EstateRest'
  BY <1>t, <1>q, <1>m, LeftMoves DEF EstateRest
<1>0. CASE UNCHANGED estateVars  BY <1>0 DEF estateVars, EstateRest
<1>1. ASSUME NEW e \in Errands, NEW u \in Tenants, NEW q \in 1..MaxQuantity, BeginOpening(e, u, q)
      PROVE  EstateRest'
  <2> DEFINE w == [NoErrand EXCEPT !.at = "opening", !.who = u, !.left = q]
  <2>1. w.left \in 0..MaxQuantity  BY EstateAssumption DEF NoErrand
  <2>2. errand' = [errand EXCEPT ![e] = w] /\ tenant' = tenant /\ stray' = stray
    BY <1>1 DEF BeginOpening
  <2> HIDE DEF w
  <2>3. QED  BY <1>m, <2>1, <2>2 DEF EstateRest
<1>2. ASSUME NEW e \in Errands, NEW m \in Machines, OpenUnit(e, m) PROVE EstateRest'
  <2> DEFINE w == [errand[e] EXCEPT !.made = @ \cup {m}, !.left = @ - 1]
  <2>1. w.left \in 0..MaxQuantity
    <3>1. w.left = errand[e].left - 1  BY <1>t DEF ErrandRow
    <3>2. errand[e].left \in 0..MaxQuantity /\ errand[e].left > 0  BY <1>2, <1>q DEF OpenUnit
    <3>3. QED  BY <3>1, <3>2, EstateAssumption
  <2>2. errand' = [errand EXCEPT ![e] = w] /\ tenant' = tenant /\ stray' = stray
    BY <1>2, <1>t DEF OpenUnit, EstateShape
  <2> HIDE DEF w
  <2>3. QED  BY <1>m, <2>1, <2>2 DEF EstateRest
<1>3. ASSUME NEW e \in Errands, NEW lost \in SUBSET Machines, OpeningFails(e, lost) PROVE EstateRest'
  BY <1>3, <1>m, <1>t DEF OpeningFails, EndsErrand, EstateRest
<1>4. ASSUME NEW e \in Errands, NEW at, OpeningCommits(e, at) PROVE EstateRest'
  BY <1>4, <1>m, <1>t DEF OpeningCommits, EndsErrand, EstateRest
<1>5. ASSUME NEW e \in Errands, NEW s \in Rows, NEW m, CheckHost(e, s, m) PROVE EstateRest'
  <2> DEFINE w == [NoErrand EXCEPT !.at = "binding", !.row = s, !.machine = m]
  <2>1. w.left = 0  BY DEF NoErrand
  <2>2. errand' = [errand EXCEPT ![e] = w] /\ tenant' = tenant /\ stray' = stray
    BY <1>5 DEF CheckHost
  <2> HIDE DEF w
  <2>3. QED  BY <1>m, <1>t, <2>1, <2>2 DEF EstateRest
<1>6. ASSUME NEW e \in Errands, WriteBinding(e) PROVE EstateRest'
  <2>1. errand[e].row \in Rows \/ row[errand[e].row].life # "here" \/ errand[e].row = "none"
    BY <1>t DEF ErrandRow
  <2>2. stray' \subseteq Machines
    BY <1>6, <1>t DEF WriteBinding, EstateRest, ErrandRow, EstateInv, ErrandsStand, Stands
  <2>3. QED  BY <1>6, <2>2, <1>m, <1>t DEF WriteBinding, EndsErrand
<1>7. ASSUME NEW e \in Errands, NEW s \in Rows, ReadService(e, s) PROVE EstateRest'
  <2> DEFINE at == IF row[s].machine = NoMachine THEN "delete" ELSE "terminate"
             w == [errand[e] EXCEPT !.row = s, !.machine = row[s].machine,
                                    !.rest = errand[e].rest \ {s}, !.at = at]
  <2>1. w.left = errand[e].left  BY <1>t DEF ErrandRow
  <2>2. errand' = [errand EXCEPT ![e] = w] /\ tenant' = tenant /\ stray' = stray
    BY <1>7, <1>t DEF ReadService, EstateShape
  <2> HIDE DEF w
  <2>3. QED  BY <1>m, <2>1, <2>2 DEF EstateRest
<1>8. ASSUME NEW e \in Errands, NEW to \in {"delete", "cascade"},
             errand' = [errand EXCEPT ![e].at = to], UNCHANGED <<tenant, stray>>
      PROVE  EstateRest'
  <2> DEFINE w == [errand[e] EXCEPT !.at = to]
  <2>1. w.left = errand[e].left  BY <1>t DEF ErrandRow
  <2>2. errand' = [errand EXCEPT ![e] = w]  BY <1>8, <1>t DEF EstateShape
  <2> HIDE DEF w
  <2>3. QED  BY <1>m, <1>8, <2>1, <2>2 DEF EstateRest
<1>9. ASSUME NEW e \in Errands, Terminate(e) \/ BatchReachesUser(e) PROVE EstateRest'
  BY <1>8, <1>9 DEF Terminate, BatchReachesUser
<1>10. ASSUME NEW e \in Errands, NEW gone, TerminateFails(e, gone) PROVE EstateRest'
  BY <1>10, <1>m, <1>t DEF TerminateFails, AfterRefusal, EstateRest
<1>11. ASSUME NEW e \in Errands, DeleteRow(e) PROVE EstateRest'
  <2> DEFINE on == [errand[e] EXCEPT !.at = "batch"]
             w == IF row[errand[e].row].life = "here" /\ errand[e].who # "none" THEN on ELSE NoErrand
  <2>1. on.left = errand[e].left  BY <1>t DEF ErrandRow
  <2>2. w.left = errand[e].left \/ w.left \in 0..MaxQuantity  BY <2>1, <1>t
  <2>3. errand' = [errand EXCEPT ![e] = w] /\ tenant' = tenant
    BY <1>11, <1>t DEF DeleteRow, EstateShape
  <2>4. stray' \subseteq Machines
    BY <1>11, <1>t DEF DeleteRow, EstateRest, ErrandRow, EstateInv, ErrandsStand, Stands
  <2> HIDE DEF w
  <2>5. QED  BY <1>m, <2>2, <2>3, <2>4
<1>12. ASSUME NEW e \in Errands, NEW u \in Tenants, NEW batch, BeginDeleteUser(e, u, batch)
       PROVE  EstateRest'
  <2> DEFINE listed == IF batch THEN Backed(u) ELSE {}
             at == IF batch THEN "batch" ELSE "cascade"
             w == [NoErrand EXCEPT !.who = u, !.listed = listed, !.rest = listed, !.at = at]
  <2>1. w.left = 0  BY DEF NoErrand
  <2>2. errand' = [errand EXCEPT ![e] = w] /\ tenant' = tenant /\ stray' = stray
    BY <1>12 DEF BeginDeleteUser
  <2> HIDE DEF w
  <2>3. QED  BY <1>m, <1>t, <2>1, <2>2 DEF EstateRest
<1>13. ASSUME NEW e \in Errands, BatchStops(e) PROVE EstateRest'
  BY <1>13, <1>m, <1>t DEF BatchStops, EndsErrand, EstateRest
<1>14. ASSUME NEW e \in Errands, Cascade(e) PROVE EstateRest'
  <2>1. stray' \subseteq Machines  BY <1>14, <1>t DEF Cascade, EstateRest
  <2>2. QED  BY <1>14, <2>1, <1>m, <1>t DEF Cascade, EndsErrand
<1>15. QED
  BY <1>0, <1>1, <1>2, <1>3, <1>4, <1>5, <1>6, <1>7, <1>9, <1>10, <1>11, <1>12, <1>13, <1>14
  DEF EstateNext

\* The row, the hosts and what each request holds of them.
LEMMA ProvisionTypes == ProvisionTypeOK /\ [ProvisionNext]_provisionVars => ProvisionTypeOK'
<1> SUFFICES ASSUME ProvisionTypeOK, [ProvisionNext]_provisionVars PROVE ProvisionTypeOK'
  OBVIOUS
<1> USE DEF ProvisionTypeOK
<1>1. CASE UNCHANGED provisionVars  BY <1>1 DEF provisionVars
<1>2. ASSUME NEW status \in Status, NEW h \in Hosts \cup {NoHost}, WriteService(status, h)
      PROVE  svc' \in [status : Status, host : Hosts \cup {NoHost}]
  BY <1>2 DEF WriteService
<1>3. ASSUME NEW r \in Requests, Finish(r)
      PROVE  call' \in [Requests -> [at : {"idle", "called", "made", "done"},
                                     host : Hosts \cup {NoHost}]]
  BY <1>3 DEF Finish
<1>4. svc.host \in Hosts \cup {NoHost} /\ {"failed", "active", "suspended", "deleted"} \subseteq Status
  BY DEF Status
<1>5. ASSUME NEW r \in Requests, StartProvision(r) PROVE ProvisionTypeOK'
  BY <1>2, <1>3, <1>4, <1>5 DEF StartProvision
<1>6. ASSUME NEW r \in Requests, OrderAnswered(r) PROVE ProvisionTypeOK'
  <2>1. hosts' \subseteq Hosts /\ accident' \in BOOLEAN /\ UNCHANGED <<link, deletion, adminEdits>>
    BY <1>6 DEF OrderAnswered
  <2>2. CASE Finish(r) /\ WriteService("failed", svc.host)
    BY <1>2, <1>3, <1>4, <2>1, <2>2
  <2>3. ASSUME NEW h \in Hosts, call' = [call EXCEPT ![r] = [at |-> "made", host |-> h]], UNCHANGED svc
        PROVE  ProvisionTypeOK'
    BY <2>1, <2>3
  <2>4. QED  BY <1>6, <2>2, <2>3 DEF OrderAnswered
<1>7. ASSUME NEW r \in Requests, RecordHost(r) PROVE ProvisionTypeOK'
  BY <1>2, <1>3, <1>4, <1>7 DEF RecordHost
<1>8. ASSUME NEW r \in Requests, ProvisionLost(r) PROVE ProvisionTypeOK'
  BY <1>3, <1>8 DEF ProvisionLost
<1>9. Edited => adminEdits' \in 0..MaxHostEdits  BY ProvisionAssumption DEF Edited
<1>10. ASSUME NEW iface \in BOOLEAN, NEW serving \in BOOLEAN, EditLink(iface, serving)
       PROVE  ProvisionTypeOK'
  BY <1>9, <1>10 DEF EditLink
<1>11. ASSUME NEW status \in {"active", "suspended"}, SetServiceStatus(status)
       PROVE  ProvisionTypeOK'
  BY <1>4, <1>9, <1>11 DEF SetServiceStatus
<1>12. ASSUME NEW h \in Hosts \cup {NoHost}, BindServiceUpstream(h) PROVE ProvisionTypeOK'
  BY <1>9, <1>12 DEF BindServiceUpstream
<1>13. ASSUME NEW h \in Hosts, CreateServicesFails(h) PROVE ProvisionTypeOK'
  BY <1>9, <1>13 DEF CreateServicesFails
<1>14. CASE StartDelete  BY <1>4, <1>9, <1>14 DEF StartDelete
<1>15. CASE DeleteService  BY <1>4, <1>15 DEF DeleteService
<1>16. QED
  BY <1>1, <1>5, <1>6, <1>7, <1>8, <1>10, <1>11, <1>12, <1>13, <1>14, <1>15 DEF ProvisionNext
=============================================================================
