-------------------------- MODULE MCEvidenceStore --------------------------
(***************************************************************************)
(* Evidence store over the part of the gatherer graph in which every mode  *)
(* of request, a diamond and a chain of three meet.                        *)
(***************************************************************************)
EXTENDS EvidenceStore
G == INSTANCE Gatherers

MCNames == {"http", "robots_txt", "sitemap_urls", "openapi", "llms", "pages", "machine_text"}

MCProgram == [n \in MCNames |-> G!GATHERERS(FALSE)[n]]

MCRank == [n \in MCNames |-> CASE n \in {"http", "machine_text"} -> 0
                               [] n \in {"robots_txt", "openapi", "llms"} -> 1
                               [] n = "sitemap_urls" -> 2
                               [] n = "pages" -> 3]
=============================================================================
