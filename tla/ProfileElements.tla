-------------------------- MODULE ProfileElements ---------------------------
(***************************************************************************)
(* ProfileElementSequence of pySim/esim/saip: the profile elements (PEs)   *)
(* of an eSIM profile in their order, the dictionaries that index them by  *)
(* type and by network access application (NAA), the numbers in the PEs'   *)
(* headers, and the lists of mandatory services and templates in the       *)
(* profile's header.  The calls are those of contrib/saip-tool.py and of   *)
(* programs that use the class: one object lives through several calls,    *)
(* until the profile is written and read again.                            *)
(*                                                                         *)
(* A PE is a model value; what the code reads in it are constants.  DER    *)
(* and the contents of files are left out.  The names that every module    *)
(* has are prefixed, as this one is extended beside BatchProgramming.      *)
(***************************************************************************)
EXTENDS Integers, FiniteSets, SequencesExt

CONSTANTS
    PE,
    type,           \* of each PE
    mandated,       \* the PEs with "mandated" in their header
    aid,            \* of an NAA its ADF, of an RFM the ADF it opens, of an application
    algorithm,      \* of each akaParameter; "mapping" refers to another NAA
    ber_tlv,        \* the PEs with a BER-TLV file
    NoAid,
    Profile,        \* the profiles that are read, with the services they mandate
    New,            \* the PEs that are inserted
    After,          \* the PEs that insert_after_pe is given
    RemovedTypes,   \* the types that remove-pe is given
    Flag,           \* the services that edit-mand-srv-list adds and removes
    MaxCalls

Naa == {"usim", "isim", "csim"}
manual_services == {"contactless", "mbms", "cat-tp", "suciCalculatorApi", "dns-resolution", "scp11ac",
                    "scp11c-authorization-mechanism", "s16mode", "eaka"}
petype_not_naa_related == {"securityDomain", "rfm", "application", "end"}

\* The PE types of each NAA, by the templates their files are made from.
templates == [usim |-> {"usim", "opt-usim", "phonebook", "gsm-access", "eap", "df-5gs", "df-saip"},
              isim |-> {"isim", "opt-isim"},
              csim |-> {"csim", "opt-csim"}]
with_parent == {"gsm-access", "df-5gs", "df-saip"}
with_template == {"mf", "cd", "telecom"} \cup UNION {templates[n] : n \in Naa}

Algorithm == {"milenage", "tuak128", "tuak256", "usim-test-algorithm"}
AnyService == Naa \cup manual_services \cup Flag \cup Algorithm
                 \cup {"cave", "eap", "javacard", "ber-tlv", "multiple-usim", "multiple-isim", "multiple-csim"}

Distinct(list) == \A i, j \in DOMAIN list : list[i] = list[j] => i = j

ASSUME ElementsAssumption ==
    /\ IsFiniteSet(PE) /\ mandated \subseteq PE /\ ber_tlv \subseteq PE
    /\ New \subseteq PE /\ \A pe \in New : type[pe] # "header"
    /\ \A pe \in PE : type[pe] = "akaParameter" => algorithm[pe] \in Algorithm \cup {"mapping"}
    /\ \A p \in Profile : p.list \in Seq(PE) /\ Distinct(p.list) /\ p.services \subseteq AnyService
    /\ MaxCalls \in Nat

VARIABLES
    pe_list, pe_by_type, pes_by_naa,
    identification,     \* in the PEs' headers; 0: none
    services,           \* eUICC-Mandatory-services
    gfste,              \* eUICC-Mandatory-GFSTEList
    mf,                 \* the PEs whose files are in the tree below self.mf
    outcome,            \* how the last call ended
    calls

element_vars == <<pe_list, pe_by_type, pes_by_naa, identification, services, gfste, mf, outcome, calls>>

\* The list of those of a list that are in a set.
Only(list, set) ==
    LET kept[n \in 0..Len(list)] ==
            IF n = 0 THEN << >> ELSE kept[n - 1] \o (IF list[n] \in set THEN <<list[n]>> ELSE << >>)
    IN  kept[Len(list)]

Occurring(list, t) == Only(list, {pe \in PE : type[pe] = t})
Types(list) == {type[pe] : pe \in ToSet(list)}

-----------------------------------------------------------------------------
(* The indexes and the numbers.                                            *)

\* _rebuild_pe_by_type
ByType(list) == [t \in Types(list) |-> Occurring(list, t)]

naa_related == {pe \in PE : type[pe] \notin petype_not_naa_related}

\* The instances of an NAA: its PE and those that follow, up to the next NAA.
Instances(list, naa) ==
    LET related == Only(list, naa_related)
        starts == {i \in DOMAIN related : type[related[i]] \in Naa \cup {"mf"}}
        mine == Only([i \in DOMAIN related |-> i], {i \in starts : type[related[i]] = naa})
        next(i) == Min({j \in starts : j > i} \cup {Len(related) + 1})
    IN  [n \in DOMAIN mine |-> SubSeq(related, mine[n], next(mine[n]) - 1)]

Indexed(by_naa, naa) == IF naa \in DOMAIN by_naa THEN by_naa[naa] ELSE << >>

\* Mutant: the instance that the loop ends in is not appended.
ByNaaUnfinished(by_naa, list) ==
    [n \in DOMAIN by_naa \cup (Types(list) \cap (Naa \cup {"mf"})) |->
        Indexed(by_naa, n) \o (IF Instances(list, n) = << >> THEN << >>
                               ELSE Front(Instances(list, n)))]

\* _rebuild_pes_by_naa: it empties self.pres_by_naa and appends to self.pes_by_naa.
ByNaa(by_naa, list) ==
    [n \in DOMAIN by_naa \cup (Types(list) \cap (Naa \cup {"mf"})) |->
        Indexed(by_naa, n) \o Instances(list, n)]

numbered == {pe \in PE : type[pe] # "header"}
Headed(list) == Only(list, numbered)

\* renumber_identification
Renumber(list) ==
    [pe \in PE |-> IF pe \in ToSet(list) \cap numbered
                   THEN CHOOSE i \in DOMAIN Headed(list) : Headed(list)[i] = pe
                   ELSE identification[pe]]

\* FsProfileElement.add_file: the PEs in the file tree; those with a parent template look
\* for its PE before them.
TreeOf(list) == {pe \in ToSet(list) : type[pe] \in with_template \ templates["csim"]}
HasBase(list) ==
    \A i \in DOMAIN list : list[i] \in TreeOf(list) =>
        LET before == Types(SubSeq(list, 1, i - 1))
        IN  /\ type[list[i]] = "mf" \/ "mf" \in before
            /\ type[list[i]] \in with_parent => "usim" \in before

\* The list is another, and _process_pelist was called.
Processed(list) ==
    /\ pe_list' = list
    /\ pe_by_type' = ByType(list)
    /\ pes_by_naa' = ByNaa(pes_by_naa, list)

Call == calls < MaxCalls /\ calls' = calls + 1

CallRaises ==
    /\ outcome' = "raised"
    /\ UNCHANGED <<pe_list, pe_by_type, pes_by_naa, identification, services, gfste, mf>>

-----------------------------------------------------------------------------
(* Inserting.                                                              *)

\* Mutant: wherever it was asked for, the PE comes last.
InsertedLast(i, pe) ==
    LET list == Append(pe_list, pe)
    IN  /\ Processed(list)
        /\ identification' = Renumber(list)
        /\ outcome' = "done"
        /\ UNCHANGED <<services, gfste, mf>>

\* insert_at_index, of a PE that the program has made
InsertedAt(i, pe) ==
    LET list == InsertAt(pe_list, i, pe)
    IN  /\ Processed(list)
        /\ identification' = Renumber(list)
        /\ outcome' = "done"
        /\ UNCHANGED <<services, gfste, mf>>

IndexOf(pe) == CHOOSE i \in DOMAIN pe_list : pe_list[i] = pe

\* append
AppendPe(pe) ==
    /\ Call
    /\ pe \notin ToSet(pe_list)
    /\ InsertedAt(Len(pe_list) + 1, pe)

\* insert_after_pe
InsertAfterPe(pe_before, pe_new) ==
    /\ Call
    /\ pe_before \in ToSet(pe_list)
    /\ pe_new \notin ToSet(pe_list)
    /\ InsertedAt(IndexOf(pe_before) + 1, pe_new)

\* add_ssd
AddSsd(ssd) ==
    /\ Call
    /\ type[ssd] = "securityDomain"
    /\ ssd \notin ToSet(pe_list)
    /\ IF "securityDomain" \in Types(pe_list)
       THEN InsertedAt(IndexOf(Head(Occurring(pe_list, "securityDomain"))) + 1, ssd)
       ELSE CallRaises

\* do_add_app
AddApp(app) ==
    /\ Call
    /\ type[app] = "application"
    /\ app \notin ToSet(pe_list)
    /\ IF "securityDomain" \in DOMAIN pe_by_type /\ Len(pe_by_type["securityDomain"]) = 1
       THEN InsertedAt(IndexOf(pe_by_type["securityDomain"][1]) + 1, app)
       ELSE CallRaises                  \* is told so, and nothing is written

-----------------------------------------------------------------------------
(* Removing.                                                               *)

\* do_remove_pe
Without(ids, types) ==
    Only(pe_list, {pe \in PE : /\ identification[pe] = 0 \/ identification[pe] \notin ids
                               /\ type[pe] \notin types})

RemovePe(ids, types) ==
    /\ Call
    /\ Processed(Without(ids, types))
    /\ outcome' = "done"
    /\ UNCHANGED <<identification, services, gfste, mf>>

\* do_remove_app: the first application with that AID, by its number
RemoveApp(app) ==
    /\ Call
    /\ type[app] = "application" /\ app \in ToSet(pe_list)
    /\ app = Head(Only(pe_list, {pe \in PE : type[pe] = "application" /\ aid[pe] = aid[app]}))
    /\ Processed(Without({identification[app]}, {}))
    /\ outcome' = "done"
    /\ UNCHANGED <<identification, services, gfste, mf>>

\* Mutant: the RFMs stay.
RemoveNaasKeepRfm(naa) ==
    /\ Call
    /\ IF "header" \notin DOMAIN pe_by_type THEN CallRaises
       ELSE LET gone == UNION {ToSet(inst) : inst \in ToSet(Indexed(pes_by_naa, naa))}
                kept == Only(pe_list, PE \ gone)
            IN  /\ services' = services \ {naa}
                /\ gfste' = gfste \ templates[naa]
                /\ pe_list' = kept
                /\ pe_by_type' = ByType(kept)
                /\ pes_by_naa' = ByNaa(pes_by_naa, kept)
                /\ outcome' = "removed"
                /\ UNCHANGED <<identification, mf>>

\* remove_naas_of_type: it calls _process_pelist twice.
RemoveNaasOfType(naa) ==
    /\ Call
    /\ IF "header" \notin DOMAIN pe_by_type THEN CallRaises
       ELSE LET naa_adf_names == {aid[pe] : pe \in ToSet(Occurring(pe_list, naa))}
                gone == UNION {ToSet(inst) : inst \in ToSet(Indexed(pes_by_naa, naa))}
                kept == Only(pe_list, PE \ gone)
                rest == Only(kept, {pe \in PE : ~(type[pe] = "rfm" /\ aid[pe] \in naa_adf_names \ {NoAid})})
            IN  /\ services' = services \ {naa}
                /\ gfste' = gfste \ templates[naa]
                /\ pe_list' = rest
                /\ pe_by_type' = ByType(rest)
                /\ pes_by_naa' = ByNaa(ByNaa(pes_by_naa, kept), rest)
                /\ outcome' = "removed"
                /\ UNCHANGED <<identification, mf>>

-----------------------------------------------------------------------------
(* The header's lists.                                                     *)

\* 'usim' in [[pe, ..], ..]: a name is never one of the lists of PEs.
multiple_services == {}

Mandated(t) == {pe \in ToSet(pe_list) \cap mandated : type[pe] = t}

\* Mutant: whatever the kind of the algoConfiguration.
aka_services_unchecked == {algorithm[pe] : pe \in Mandated("akaParameter")}

aka_services == {algorithm[pe] : pe \in {a \in Mandated("akaParameter") :
                                            algorithm[a] # "mapping"}}

\* rebuild_mandatory_services
RebuildMandatoryServices ==
    /\ Call
    /\ IF DOMAIN pes_by_naa = {} \/ mf = {} \/ Len(Occurring(pe_list, "header")) # 1
       THEN CallRaises
       ELSE /\ services' =
                 {n \in Naa \cap DOMAIN pes_by_naa :
                     \E inst \in ToSet(pes_by_naa[n]) : Head(inst) \in mandated}
                 \cup aka_services
                 \cup (IF Mandated("cdmaParameter") # {} THEN {"cave"} ELSE {})
                 \cup (IF Mandated("eap") # {} THEN {"eap"} ELSE {})
                 \cup (IF Mandated("application") # {} THEN {"javacard"} ELSE {})
                 \cup multiple_services
                 \cup (IF mf \cap ber_tlv # {} THEN {"ber-tlv"} ELSE {})
                 \cup (services \cap manual_services)
            /\ outcome' = "rebuilt"
            /\ UNCHANGED <<pe_list, pe_by_type, pes_by_naa, identification, gfste, mf>>

\* rebuild_mandatory_gfstelist
RebuildMandatoryGfstelist ==
    /\ Call
    /\ IF Len(Occurring(pe_list, "header")) # 1 THEN CallRaises
       ELSE /\ gfste' = {type[pe] : pe \in {p \in ToSet(pe_list) \cap mandated :
                                              type[p] \in with_template}}
            /\ outcome' = "done"
            /\ UNCHANGED <<pe_list, pe_by_type, pes_by_naa, identification, services, mf>>

\* do_edit_mand_srv_list
EditMandSrvList(s, add) ==
    /\ Call
    /\ IF "header" \notin DOMAIN pe_by_type THEN CallRaises
       ELSE /\ services' = IF add THEN services \cup {s} ELSE services \ {s}
            /\ outcome' = "done"
            /\ UNCHANGED <<pe_list, pe_by_type, pes_by_naa, identification, gfste, mf>>

\* write_pes and from_der: another object.
WriteAndRead ==
    /\ Call
    /\ HasBase(pe_list)
    /\ pe_list' = pe_list
    /\ pe_by_type' = ByType(pe_list)
    /\ pes_by_naa' = ByNaa(<< >>, pe_list)
    /\ mf' = TreeOf(pe_list)
    /\ outcome' = "read"
    /\ UNCHANGED <<identification, services, gfste>>

-----------------------------------------------------------------------------
(* CheckBasicStructure of validation.py: saip-tool's check.                *)

Single(t) == Len(Occurring(pe_list, t)) <= 1
Has(t) == t \in Types(pe_list)

check_start_and_end ==
    /\ Len(pe_list) >= 2
    /\ type[pe_list[1]] = "header" /\ type[pe_list[2]] = "mf" /\ type[Last(pe_list)] = "end"

check_number_of_occurrence ==
    /\ Has("header") /\ Has("mf")
    /\ \A t \in {"header", "mf", "end", "cd", "telecom", "usim", "isim", "csim", "opt-usim",
                 "opt-isim", "opt-csim", "df-saip", "df-5gs"} : Single(t)

check_optional_ordering ==
    \A n \in Naa, t \in {"opt-usim", "opt-isim", "opt-csim", "gsm-access", "phonebook",
                         "df-5gs", "df-saip"} :
        t \in templates[n] /\ Has(t) => Single(t) /\ Has(n) /\ Single(n)

check_mandatory_services ==
    /\ \A n \in Naa \cap services : Has(n) /\ Single(n)
    /\ services \cap {"gba-usim", "multiple-usim"} # {} => "usim" \in services
    /\ services \cap {"gba-isim", "multiple-isim"} # {} => "isim" \in services
    /\ "multiple-csim" \in services => "csim" \in services
    /\ services \cap {"get-identity", "profile-a-x25519", "profile-a-p256"} # {} =>
         services \cap {"usim", "isim"} # {}

check_mandatory_services_aka ==
    LET used == {algorithm[pe] : pe \in ToSet(Occurring(pe_list, "akaParameter"))}
    IN  /\ "mapping" \notin used        \* has no algorithmID: KeyError
        /\ services \cap {"milenage", "tuak128", "usim-test-algorithm"} \subseteq used
        /\ "cave" \in services => Len(Occurring(pe_list, "cdmaParameter")) = 1
        /\ ~("tuak256" \in services /\ "tuak256" \in used)

check_identification_unique ==
    \A i, j \in DOMAIN Headed(pe_list) : i # j =>
        identification[Headed(pe_list)[i]] # identification[Headed(pe_list)[j]]

CheckBasicStructure ==
    /\ check_start_and_end /\ check_number_of_occurrence /\ check_optional_ordering
    /\ check_mandatory_services /\ check_mandatory_services_aka /\ check_identification_unique

-----------------------------------------------------------------------------
\* from_der
ElementsInit ==
    \E p \in Profile :
        /\ pe_list = p.list
        /\ pe_by_type = ByType(p.list)
        /\ pes_by_naa = ByNaa(<< >>, p.list)
        /\ identification = [pe \in PE |->
             IF pe \in ToSet(p.list) /\ type[pe] # "header"
             THEN CHOOSE i \in DOMAIN Headed(p.list) : Headed(p.list)[i] = pe ELSE 0]
        /\ services = p.services
        /\ gfste = {type[pe] : pe \in {q \in ToSet(p.list) \cap mandated :
                                         type[q] \in with_template}}
        /\ mf = TreeOf(p.list)
        /\ outcome = "read"
        /\ calls = 0

ElementsNext ==
    \/ \E pe \in New : AppendPe(pe)
    \/ \E pe_before \in After, pe_new \in New : InsertAfterPe(pe_before, pe_new)
    \/ \E pe \in New : AddSsd(pe)
    \/ \E pe \in New : AddApp(pe)
    \/ \E id \in 1..Cardinality(PE) : RemovePe({id}, {})
    \/ \E t \in RemovedTypes : RemovePe({}, {t})
    \/ \E app \in PE : RemoveApp(app)
    \/ \E naa \in Naa : RemoveNaasOfType(naa)
    \/ RebuildMandatoryServices
    \/ RebuildMandatoryGfstelist
    \/ \E s \in Flag, add \in BOOLEAN : EditMandSrvList(s, add)
    \/ WriteAndRead

ElementsSpec == ElementsInit /\ [][ElementsNext]_element_vars
-----------------------------------------------------------------------------
\* Every variable has its type, and no PE is in the sequence twice.
ElementsTypeOK ==
    /\ pe_list \in Seq(PE) /\ Distinct(pe_list)
    /\ DOMAIN pes_by_naa \subseteq Naa \cup {"mf"}
    /\ \A n \in DOMAIN pes_by_naa, inst \in UNION {ToSet(pes_by_naa[m]) : m \in DOMAIN pes_by_naa} :
         inst \in Seq(PE) /\ inst # << >>
    /\ identification \in [PE -> 0..Cardinality(PE)]
    /\ services \subseteq AnyService
    /\ gfste \subseteq with_template
    /\ mf \subseteq PE
    /\ outcome \in {"read", "done", "removed", "rebuilt", "raised"}
    /\ calls \in 0..MaxCalls

\* Whatever else pes_by_naa still holds, a PE that belongs to an NAA of the sequence is found
\* in an instance that this NAA heads (_rebuild_pes_by_naa, read by remove_naas_of_type).
EveryInstanceIndexed ==
    \A i, j \in DOMAIN pe_list :
        (/\ i <= j
         /\ type[pe_list[i]] \in Naa \cup {"mf"}
         /\ type[pe_list[j]] \notin petype_not_naa_related
         /\ \A m \in (i + 1)..j : type[pe_list[m]] \notin Naa \cup {"mf"})
        => /\ type[pe_list[i]] \in DOMAIN pes_by_naa
           /\ \E inst \in ToSet(pes_by_naa[type[pe_list[i]]]) :
                Head(inst) = pe_list[i] /\ pe_list[j] \in ToSet(inst)

\* Once remove_naas_of_type is through, no PE of the NAA is left and no RFM opens an ADF that
\* was one of its.
RemovedLeavesNoAdf ==
    [][\A naa \in Naa : RemoveNaasOfType(naa) /\ outcome' = "removed" =>
         /\ naa \notin Types(pe_list')
         /\ \A r \in ToSet(pe_list'), pe \in ToSet(Occurring(pe_list, naa)) :
              type[r] = "rfm" /\ aid[pe] # NoAid => aid[r] # aid[pe]]_element_vars

\* A profile that saip-tool's check accepts is accepted after an application or an SSD was
\* added or an application removed (insert_at_index, do_add_app, add_ssd, do_remove_app).
AddedIsAccepted ==
    [][CheckBasicStructure /\ (\E pe \in PE : AddApp(pe) \/ AddSsd(pe) \/ RemoveApp(pe))
         => CheckBasicStructure']_element_vars
=============================================================================
