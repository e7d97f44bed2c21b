-------------------------- MODULE MCDocumentIntake ---------------------------
EXTENDS DocumentIntake

\* A pay stub that also carries the identity marker, an identity document, a
\* text without a marker, an image, a corrupt page, a page that breaks pypdf,
\* and files the scanner refuses: too large, too long, encrypted, impossible to
\* open, renamed and of a foreign type.
Pdf ==
  [size |-> 1, extension |-> "pdf", magic |-> "application/pdf", pages |-> 1,
   opens |-> TRUE, text |-> "extracts", encrypted |-> FALSE, markers |-> {},
   fields |-> {}]

SampleFiles ==
  { [Pdf EXCEPT !.markers = {"pay_stub", "identity"},
                !.fields = {"employer", "gross_pay", "synthetic_id"}],
    [Pdf EXCEPT !.markers = {"identity"}, !.pages = 2,
                !.fields = {"address", "synthetic_id", "employer"}],
    [Pdf EXCEPT !.fields = {"address"}],
    [Pdf EXCEPT !.extension = "png", !.magic = "image/png"],
    [Pdf EXCEPT !.text = "PdfReadError"],
    [Pdf EXCEPT !.text = "other"],
    [Pdf EXCEPT !.size = 3],
    [Pdf EXCEPT !.pages = 3],
    [Pdf EXCEPT !.encrypted = TRUE],
    [Pdf EXCEPT !.opens = FALSE],
    [Pdf EXCEPT !.extension = "jpg"],
    [Pdf EXCEPT !.extension = "exe", !.magic = "unknown"] }
==============================================================================
