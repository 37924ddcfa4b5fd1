CONSTANTS
    ItemLen = 3
    Pages = {8, 9, 10, 11, 12, 13}
    MaxLines = 9
SPECIFICATION Spec
PROPERTIES NoteSurvives NoCoverage
