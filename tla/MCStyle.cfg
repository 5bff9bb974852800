SPECIFICATION Spec
CONSTANTS
    Elements <- MCElements
    Doc = Doc
    NULL = NULL
    Tag = styletag
    TagSheets <- MCTagSheets
    ApiSheets = {sheetA, sheetB}
    Rules <- MCRules
    Properties = {width}
    Texts <- MCTexts
    outer = outer
    inner = inner
    styletag = styletag
    sheetA = sheetA
    sheetB = sheetB
    sheet1 = sheet1
    sheet2 = sheet2
    width = width
INVARIANTS TypeOK CascadeCurrent DetachedInlineOnly
