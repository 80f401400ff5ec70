------------------------------ MODULE MCScraper ------------------------------
(* One hop of each kind that the start-up lets through. *)
EXTENDS Scraper

Hop(provider, source) == [provider |-> provider, source |-> source]
AllHops ==
    {Hop("cilium", "none"), Hop("cilium", "dir"), Hop("calico", "secret"), Hop("calico", "configmap")}
==============================================================================
