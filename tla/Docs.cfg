\* Two sections or a bundled doc, two versions of each, and three edits of a person.
CONSTANTS
  Order <- TwoSections
  Sticky = {"B"}
  Template = {"B"}
  Lines = {"line", "heading"}
  Headings = {"heading"}
  Version = {v1, v2}
  MaxEdits = 3
  MaxLines = 7
SPECIFICATION Spec
SYMMETRY DocSymmetry
INVARIANTS TornFileKept InitConverges 
PROPERTIES UserLinesKept
\* Nothing more may happen when the edits are used up and a write would exceed MaxLines.
CHECK_DEADLOCK FALSE
