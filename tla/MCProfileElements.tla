------------------------- MODULE MCProfileElements --------------------------
(***************************************************************************)
(* Model checking of ProfileElements: a profile with a USIM and an ISIM    *)
(* that refers to its keys, and one with a USIM that the check accepts.    *)
(***************************************************************************)
EXTENDS ProfileElements, TLC

CONSTANTS hdr, mf0, usim, opt, aka, isim, map, rfm, sd, app, last,
          app2, ssd, csim, a1, a2, a3

MCtype ==
    hdr :> "header" @@ mf0 :> "mf" @@ usim :> "usim" @@ opt :> "opt-usim"
    @@ aka :> "akaParameter" @@ isim :> "isim" @@ map :> "akaParameter" @@ rfm :> "rfm"
    @@ sd :> "securityDomain" @@ app :> "application" @@ last :> "end" @@ app2 :> "application"
    @@ ssd :> "securityDomain" @@ csim :> "csim"

MCaid == [pe \in PE |-> CASE pe \in {usim, rfm} -> a1
                          [] pe \in {isim, app} -> a2
                          [] pe = app2 -> a3
                          [] OTHER -> NoAid]

MCalgorithm == [pe \in PE |-> CASE pe = map -> "mapping" [] OTHER -> "milenage"]

WithIsim == [list |-> <<hdr, mf0, usim, opt, aka, rfm, isim, map, sd, app, last>>,
             services |-> {"usim", "isim", "milenage", "mbms"}]
OneUsim == [list |-> <<hdr, mf0, usim, aka, rfm, sd, app, last>>,
            services |-> {"usim", "milenage"}]
MCEdited == {WithIsim, OneUsim}
=============================================================================
